---- MODULE Spec2Model ----
(***************************************************************************)
(* Aggregation and reliability controller of apps/api/main.py:             *)
(*   - the entity merge engine (_merge_fields_v2_by_uuid),                  *)
(*   - the single aggregation call (_combined_fields_single),               *)
(*   - the chunked fan-out controller (_combined_fields_chunked).           *)
(* Python dicts are functions from key strings to values; an absent key is *)
(* a key outside the DOMAIN.  Insertion-ordered dicts keyed by uuid are     *)
(* sequences of dicts whose uuids are pairwise different.                   *)
(***************************************************************************)
EXTENDS Integers, Sequences, FiniteSets, TLC

VARIABLES
    \* ---- merge engine, applied to drawn inputs
    mpc,            \* "input" | "merged"
    X,              \* the drawn field list
    mergedOnce,     \* _merge_fields_v2_by_uuid([X])
    mergedTwice,    \* _merge_fields_v2_by_uuid([X, X])
    mergedPair,     \* _merge_fields_v2_by_uuid([A, B]), A and B the two halves of X
    subResponses,   \* label -> fieldsV2 of a drawn sub-query response, or None
    mergedFields,   \* the single-call merge of subResponses
    \* ---- single aggregation call
    spc,            \* position in _combined_fields_single
    sreq,           \* the request flags of the call
    prepared_cache, \* labels served from the cache overlay
    fetched,        \* label -> outcome of the awaited upstream call
    baseCalls,      \* upstream calls issued for 'base'
    expired,        \* the shared optional budget has run out
    insightsTries,  \* dedicated insights retries issued
    sresult,        \* what the call returned or raised
    \* ---- response cache overlay and the calls of one client
    by_operation,   \* services/cache.py: cache key -> saved envelope
    callNo,         \* 1 = first call, 2 = the identical second call
    issued,         \* labels sent upstream by the running call, in order
    firstCall,      \* fetched and issued of the first call, kept when the second starts
    \* ---- streaming branch of _combined_fields_single
    stpc,           \* position in the streaming branch / streamer()
    inflight,       \* the asyncio tasks awaiting call_graphql: <<list, label>>
    streamCalls,    \* label -> number of call_graphql invocations of the request
    emitted,        \* the NDJSON records yielded so far, in order
    \* ---- two runs of one call that differ in the caller's tokens
    tkpc,           \* "input" | "answered"
    tokenRuns,      \* the tokens of run 1 and run 2, includeTokens, the upstream outcome
    tokenOut,       \* what each run hands back to its caller
    \* ---- the entry point combined_fields
    rpc,            \* "request" | "routed"
    routeIn,        \* the request and the environment limits
    route,          \* where combined_fields sends the request
    \* ---- the clock of one batch call and the upstream calls it has issued
    now,            \* loop.time(), in whole seconds since the call began
    start_t,        \* loop.time() taken when the fetch plan starts to run
    awaited,        \* the upstream calls in flight
    issuedLog,      \* every upstream call issued so far, in order
    \* ---- one record each for four further concerns
    dropRun,        \* a field list with entities lacking uuid, and what both merge paths make of it
    endpoint,       \* a cache-first endpoint, its cache and the upstream calls of its requests
    flight,         \* the runs of the single pipeline the chunked controller has in flight
    job,            \* one run of the snapshot job
    \* ---- asyncio.as_completed(other_tasks) of streamer()
    completed,      \* the tasks of other_tasks that have finished, in that order
    \* ---- the runs of the single pipeline for the chunk last attempted
    runLog,         \* pass, chunk index and the outcome of each attempt so far
    \* ---- chunked controller
    cpc,            \* position in _combined_fields_chunked
    creq,           \* farms, chunk size, attempts, strictness
    pass,           \* 1 = first pass, 2 = retry round
    farm_chunks,    \* the chunks of the running pass
    chunkIdx,       \* index of the chunk being attempted
    attempt,        \* attempt number within the chunk
    last_error,     \* last error of the chunk being attempted
    successes,      \* parsed bodies of the successful chunks
    failures,       \* {farmUuids, error} of the failed chunks
    retried_failed_farms,
    cresult         \* what the chunked call returned or raised

mergeVars == <<mpc, X, mergedOnce, mergedTwice, mergedPair, subResponses, mergedFields>>
singleVars == <<spc, sreq, prepared_cache, fetched, baseCalls, expired, insightsTries, sresult>>
chunkVars == <<cpc, creq, pass, farm_chunks, chunkIdx, attempt, last_error, successes,
               failures, retried_failed_farms, cresult>>
cacheVars == <<by_operation, callNo, issued, firstCall>>
streamVars == <<stpc, inflight, streamCalls, emitted>>
tokenVars == <<tkpc, tokenRuns, tokenOut>>
routeVars == <<rpc, routeIn, route>>
traceVars == <<runLog>>
schedVars == <<now, start_t, awaited, issuedLog>>
orderVars == <<completed>>
extraVars == <<dropRun, endpoint, flight, job>>
sideVars == <<cacheVars, streamVars, tokenVars, routeVars, traceVars, schedVars, orderVars,
              extraVars>>
notCache == <<mergeVars, chunkVars, streamVars, tokenVars, routeVars, traceVars, schedVars,
              orderVars, extraVars>>
notStream == <<mergeVars, chunkVars, cacheVars, tokenVars, routeVars, traceVars, schedVars,
               orderVars, extraVars>>
notSched == <<mergeVars, chunkVars, cacheVars, streamVars, tokenVars, routeVars, traceVars,
              orderVars, extraVars>>
notExtra == <<mergeVars, singleVars, chunkVars, cacheVars, streamVars, tokenVars, routeVars,
              traceVars, schedVars, orderVars>>
vars == <<mergeVars, singleVars, chunkVars, sideVars>>

(***************************************************************************)
(* Python dict and list helpers                                            *)
(***************************************************************************)
EmptyDict == << >>

\* A slip that keeps the earlier value of a key present on both sides.
DictKeepPrev(prev, f) ==
    [k \in (DOMAIN prev) \cup (DOMAIN f) |-> IF k \in DOMAIN prev THEN prev[k] ELSE f[k]]

\* {**prev, **f}
DictUpdate(prev, f) ==
    [k \in (DOMAIN prev) \cup (DOMAIN f) |-> IF k \in DOMAIN f THEN f[k] ELSE prev[k]]

\* d.get("uuid") is truthy
HasUuid(d) == "uuid" \in DOMAIN d /\ d.uuid # ""

\* A cropSeasonsV2 value: Python None or a list of crop season dicts.
NoneValue == [isNone |-> TRUE, items |-> << >>]
ListValue(seq) == [isNone |-> FALSE, items |-> seq]

\* d.get("cropSeasonsV2")
GetCropSeasons(d) == IF "cropSeasonsV2" \in DOMAIN d THEN d.cropSeasonsV2 ELSE NoneValue

\* (v or []) if isinstance(v, list) else []
ListOrEmpty(v) == IF v.isNone THEN << >> ELSE v.items

\* out.get(key, {}) on an insertion-ordered dict keyed by uuid
LookupByUuid(out, key) ==
    IF \E i \in 1..Len(out) : out[i].uuid = key
    THEN out[CHOOSE i \in 1..Len(out) : out[i].uuid = key]
    ELSE EmptyDict

\* out[key] = d on an insertion-ordered dict keyed by uuid (d.uuid = key)
PutByUuid(out, d) ==
    IF \E i \in 1..Len(out) : out[i].uuid = d.uuid
    THEN [out EXCEPT ![CHOOSE i \in 1..Len(out) : out[i].uuid = d.uuid] = d]
    ELSE Append(out, d)

(***************************************************************************)
(* Entity merge engine                                                     *)
(***************************************************************************)
\* first loop of _merge_crop_seasons: out[str(cs["uuid"])] = dict(cs)
RECURSIVE CollectPrevSeasons(_, _)
CollectPrevSeasons(list, out) ==
    IF list = << >> THEN out
    ELSE LET cs == Head(list) IN
         CollectPrevSeasons(Tail(list), IF HasUuid(cs) THEN PutByUuid(out, cs) ELSE out)

\* second loop of _merge_crop_seasons: out[key] = {**out.get(key, {}), **cs}
RECURSIVE OverlayNextSeasons(_, _)
OverlayNextSeasons(list, out) ==
    IF list = << >> THEN out
    ELSE LET cs == Head(list) IN
         OverlayNextSeasons(Tail(list),
            IF HasUuid(cs)
            THEN PutByUuid(out, DictUpdate(LookupByUuid(out, cs.uuid), cs))
            ELSE out)

\* A slip that appends the next list instead of merging it by uuid.
ConcatCropSeasons(prev_list, next_list) ==
    CollectPrevSeasons(ListOrEmpty(prev_list), << >>)
        \o SelectSeq(ListOrEmpty(next_list), HasUuid)

\* A slip that lets the next list replace the seasons seen so far.
TakeNextSeasons(prev_list, next_list) == OverlayNextSeasons(ListOrEmpty(next_list), << >>)

_merge_crop_seasons(prev_list, next_list) ==
    OverlayNextSeasons(ListOrEmpty(next_list), CollectPrevSeasons(ListOrEmpty(prev_list), << >>))

\* body of the inner loop of _merge_fields_v2_by_uuid for one field f
MergeOneField(merged, f) ==
    IF ~HasUuid(f) THEN merged
    ELSE LET prev == LookupByUuid(merged, f.uuid)
             combined == DictUpdate(prev, f)
         IN  PutByUuid(merged,
                IF ~GetCropSeasons(prev).isNone \/ ~GetCropSeasons(f).isNone
                THEN DictUpdate(combined,
                        [cropSeasonsV2 |-> ListValue(
                            _merge_crop_seasons(GetCropSeasons(prev), GetCropSeasons(f)))])
                ELSE combined)

RECURSIVE MergeFieldList(_, _)
MergeFieldList(fields, merged) ==
    IF fields = << >> THEN merged
    ELSE MergeFieldList(Tail(fields), MergeOneField(merged, Head(fields)))

RECURSIVE MergeFieldLists(_, _)
MergeFieldLists(field_lists, merged) ==
    IF field_lists = << >> THEN merged
    ELSE MergeFieldLists(Tail(field_lists), MergeFieldList(Head(field_lists), merged))

_merge_fields_v2_by_uuid(field_lists) == MergeFieldLists(field_lists, << >>)

(***************************************************************************)
(* Inputs of the merge engine                                              *)
(***************************************************************************)
MaxFieldListLen == 2

SeasonA1 == [uuid |-> "s1", stage |-> 1]
SeasonA2 == [uuid |-> "s1", stage |-> 2]
SeasonAy == [uuid |-> "s1", yield |-> 7]
SeasonB1 == [uuid |-> "s2", stage |-> 1]
SeasonNoUuid == [stage |-> 1]
SeasonEmptyUuid == [uuid |-> "", stage |-> 2]

\* cropSeasonsV2 values a field may carry (the key may also be absent)
CropSeasonValues ==
    { NoneValue, ListValue(<< >>), ListValue(<<SeasonA1>>), ListValue(<<SeasonA2, SeasonB1>>),
      ListValue(<<SeasonA1, SeasonA2>>), ListValue(<<SeasonAy, SeasonNoUuid>>),
      ListValue(<<SeasonEmptyUuid, SeasonB1>>) }

FieldHeads ==
    { [uuid |-> "u1"], [uuid |-> "u1", name |-> "A"], [uuid |-> "u1", name |-> "B", farmV2 |-> 1],
      [uuid |-> "u1", name |-> "C", area |-> 5],
      [uuid |-> "u2", name |-> "A"], [uuid |-> "", name |-> "A"], [name |-> "A"] }

FieldSamples ==
    FieldHeads \cup { DictUpdate(h, [cropSeasonsV2 |-> v]) : h \in FieldHeads, v \in CropSeasonValues }

FieldListsUpTo(n) == UNION { [1..k -> FieldSamples] : k \in 0..n }

InitSingleIdle ==
    /\ spc = "idle" /\ sreq = EmptyDict /\ prepared_cache = EmptyDict /\ fetched = EmptyDict
    /\ baseCalls = 0 /\ expired = FALSE /\ insightsTries = 0 /\ sresult = EmptyDict

InitCacheIdle ==
    by_operation = EmptyDict /\ callNo = 0 /\ issued = << >> /\ firstCall = EmptyDict

InitStreamIdle ==
    stpc = "idle" /\ inflight = {} /\ streamCalls = EmptyDict /\ emitted = << >>

InitTokenIdle == tkpc = "idle" /\ tokenRuns = EmptyDict /\ tokenOut = << >>

InitRouteIdle == rpc = "idle" /\ routeIn = EmptyDict /\ route = EmptyDict

NoRuns == [pass |-> 0, chunk |-> 0, runs |-> << >>]

InitTraceIdle == runLog = NoRuns

InitSchedIdle == now = 0 /\ start_t = 0 /\ awaited = {} /\ issuedLog = << >>

InitOrderIdle == completed = << >>

InitExtraIdle ==
    dropRun = EmptyDict /\ endpoint = EmptyDict /\ flight = EmptyDict /\ job = EmptyDict

InitSideIdle ==
    /\ InitCacheIdle /\ InitStreamIdle /\ InitTokenIdle /\ InitRouteIdle /\ InitTraceIdle
    /\ InitSchedIdle
    /\ InitOrderIdle
    /\ InitExtraIdle

InitChunkIdle ==
    /\ cpc = "idle" /\ creq = EmptyDict /\ pass = 0 /\ farm_chunks = << >> /\ chunkIdx = 0
    /\ attempt = 0 /\ last_error = "none" /\ successes = << >> /\ failures = << >>
    /\ retried_failed_farms = << >> /\ cresult = EmptyDict

InitMerge ==
    /\ mpc = "input"
    /\ X \in FieldListsUpTo(MaxFieldListLen)
    /\ mergedOnce = << >>
    /\ mergedTwice = << >>
    /\ mergedPair = << >>
    /\ subResponses = EmptyDict
    /\ mergedFields = << >>
    /\ InitSingleIdle
    /\ InitChunkIdle
    /\ InitSideIdle

\* The two source lists cut out of X: A is its first entry, B the rest.
SourceA == IF X = << >> THEN << >> ELSE <<Head(X)>>
SourceB == IF X = << >> THEN << >> ELSE Tail(X)

\* One application of the merge engine to [X], to [X, X] and to [A, B].
MergeSources ==
    /\ mpc = "input"
    /\ mpc' = "merged"
    /\ mergedOnce' = _merge_fields_v2_by_uuid(<<X>>)
    /\ mergedTwice' = _merge_fields_v2_by_uuid(<<X, X>>)
    /\ mergedPair' = _merge_fields_v2_by_uuid(<<SourceA, SourceB>>)
    /\ UNCHANGED <<X, subResponses, mergedFields, singleVars, chunkVars, sideVars>>

NextMerge == MergeSources

SpecMerge == InitMerge /\ [][NextMerge]_vars

(***************************************************************************)
(* Single aggregation call: _combined_fields_single, non-streaming         *)
(***************************************************************************)
\* request_configs in insertion order: the five fixed labels, then the two
\* task labels added when includeTasks is set
ConfigOrder == <<"base", "insights", "predictions", "risk1", "risk2", "tasks", "tasks_sprayings">>
TaskLabels == {"tasks", "tasks_sprayings"}
OptionalNames == {"insights", "predictions", "tasks", "tasks_sprayings", "risk1", "risk2"}

\* label is a key of request_configs
InConfigs(req, label) == label \in TaskLabels => req.includeTasks

\* a slip that schedules a label whatever its condition says
ConditionIgnored(req, label) == TRUE

\* cfg.get("condition") is absent or holds
ConditionHolds(req, label) == label = "tasks_sprayings" => req.withSprayingsV2

Applicable(req, label) == InConfigs(req, label) /\ ConditionHolds(req, label)

\* cfg.get("optional")
OptionalLabels(req) == { l \in { ConfigOrder[i] : i \in 2..Len(ConfigOrder) } : InConfigs(req, l) }

\* the labels of request_configs whose condition is absent or holds
ApplicableLabels(req) == { l \in { ConfigOrder[i] : i \in 1..Len(ConfigOrder) } : Applicable(req, l) }

\* labels of fetch_plan: applicable and not served from the cache
PlanLabels(req, prepared) ==
    { l \in { ConfigOrder[i] : i \in 1..Len(ConfigOrder) } :
        Applicable(req, l) /\ l \notin DOMAIN prepared }

\* outcomes of one awaited upstream call
OkResult(fields) == [kind |-> "ok", fields |-> fields]
ErrorResult == [kind |-> "error", fields |-> << >>]
TimeoutResult == [kind |-> "timeout", fields |-> << >>]

\* _is_error: an exception (HTTPException of call_graphql, TimeoutError of wait_for)
_is_error(res) == res.kind # "ok"

\* the optional labels of plan_map the scheduling loop has not settled yet
PendingOptional(req, prepared, f) ==
    { i \in 2..Len(ConfigOrder) :
        ConfigOrder[i] \in PlanLabels(req, prepared) /\ ConfigOrder[i] \notin DOMAIN f }

\* "insights" not in prepared_cache and _is_error(fetched.get("insights"))
NeedsInsightsRetry(prepared, f) ==
    "insights" \notin DOMAIN prepared /\ "insights" \in DOMAIN f /\ _is_error(f["insights"])

\* where the call continues once base is settled and fetched has become f
Advance(req, prepared, f) ==
    IF PendingOptional(req, prepared, f) # {} THEN "optional"
    ELSE IF NeedsInsightsRetry(prepared, f) THEN "insights_retry"
    ELSE "report"

SetFetched(f, label, res) == DictUpdate(f, [l \in {label} |-> res])

\* field lists a base response may carry
Field1 == [uuid |-> "u1", name |-> "A", farmV2 |-> 1]
Field2 == [uuid |-> "u2", name |-> "B", farmV2 |-> 1]
BaseFieldLists == { << >>, <<Field1, Field2>> }

BaseOutcomes == { OkResult(fl) : fl \in BaseFieldLists } \cup {ErrorResult, TimeoutResult}
OptionalOutcomes == { OkResult(<< >>), ErrorResult, TimeoutResult }

\* The cache overlay serves insights and predictions only out of the
\* _sub_responses embedded in a cached 'tasks' entry.
CachedLabelSets(req) ==
    { c \in SUBSET { l \in {"base", "insights", "tasks", "risk1"} : Applicable(req, l) } :
        "insights" \in c => "tasks" \in c }

\* prepared_cache: the cached ok envelopes, marked source = "cache"
CacheStates(req) ==
    UNION { { [l \in c |-> OkResult(IF l = "base" THEN fl ELSE << >>)] : fl \in BaseFieldLists } :
            c \in CachedLabelSets(req) }

InitMergeIdle ==
    /\ mpc = "idle" /\ X = << >> /\ mergedOnce = << >> /\ mergedTwice = << >> /\ mergedPair = << >>
    /\ subResponses = EmptyDict /\ mergedFields = << >>

InitSingle ==
    /\ spc = "plan"
    /\ sreq \in [includeTasks : BOOLEAN, withSprayingsV2 : BOOLEAN, withBoundarySvg : BOOLEAN]
    /\ prepared_cache = EmptyDict
    /\ fetched = EmptyDict
    /\ baseCalls = 0
    /\ expired = FALSE
    /\ insightsTries = 0
    /\ sresult = EmptyDict
    /\ InitChunkIdle
    /\ InitSideIdle
    /\ InitMergeIdle

\* cache lookup and fetch_plan
PlanFetch ==
    /\ spc = "plan"
    /\ \E c \in CacheStates(sreq) :
        /\ prepared_cache' = c
        /\ spc' = IF "base" \notin DOMAIN c THEN "base" ELSE Advance(sreq, c, EmptyDict)
    /\ UNCHANGED <<sreq, fetched, baseCalls, expired, insightsTries, sresult, mergeVars, chunkVars, sideVars>>

\* await asyncio.wait_for(plan_map["base"], timeout=base_timeout_sec)
FetchBase ==
    /\ spc = "base"
    /\ \E res \in BaseOutcomes, late \in BOOLEAN :
        /\ fetched' = SetFetched(fetched, "base", res)
        /\ expired' = late
        /\ spc' = IF _is_error(res) /\ sreq.withBoundarySvg THEN "base_retry"
                  ELSE Advance(sreq, prepared_cache, SetFetched(fetched, "base", res))
    /\ baseCalls' = baseCalls + 1
    /\ UNCHANGED <<sreq, prepared_cache, insightsTries, sresult, mergeVars, chunkVars, sideVars>>

\* the one retry of base without boundary
RetryBase ==
    /\ spc = "base_retry"
    /\ \E res \in BaseOutcomes, late \in BOOLEAN :
        /\ fetched' = SetFetched(fetched, "base", res)
        /\ expired' = (expired \/ late)
        /\ spc' = Advance(sreq, prepared_cache, SetFetched(fetched, "base", res))
    /\ baseCalls' = baseCalls + 1
    /\ UNCHANGED <<sreq, prepared_cache, insightsTries, sresult, mergeVars, chunkVars, sideVars>>

\* one iteration of the optional loop: the next label of plan_map in config order
FetchOptional ==
    /\ spc = "optional"
    /\ LET i == CHOOSE j \in PendingOptional(sreq, prepared_cache, fetched) :
                    \A k \in PendingOptional(sreq, prepared_cache, fetched) : j <= k
           label == ConfigOrder[i]
       IN  IF expired
           THEN \* remaining <= 0: recorded as a timeout, not awaited
                /\ fetched' = SetFetched(fetched, label, TimeoutResult)
                /\ expired' = expired
                /\ spc' = Advance(sreq, prepared_cache, SetFetched(fetched, label, TimeoutResult))
           ELSE \E res \in OptionalOutcomes, late \in BOOLEAN :
                /\ fetched' = SetFetched(fetched, label, res)
                /\ expired' = (late \/ res.kind = "timeout")
                /\ spc' = Advance(sreq, prepared_cache, SetFetched(fetched, label, res))
    /\ UNCHANGED <<sreq, prepared_cache, baseCalls, insightsTries, sresult, mergeVars, chunkVars, sideVars>>

\* one attempt of the dedicated insights retry loop
insights_attempts == 2
RetryInsights ==
    /\ spc = "insights_retry"
    /\ insightsTries < insights_attempts
    /\ insightsTries' = insightsTries + 1
    /\ \E res \in {OkResult(<< >>), ErrorResult} :
        IF _is_error(res) /\ insightsTries + 1 < insights_attempts
        THEN /\ spc' = "insights_retry"
             /\ fetched' = fetched
        ELSE /\ spc' = "report"
             /\ fetched' = SetFetched(fetched, "insights", res)
    /\ UNCHANGED <<sreq, prepared_cache, baseCalls, expired, sresult, mergeVars, chunkVars, sideVars>>

\* prepared_cache.get(label) or fetched.get(label), kept only when it is an ok dict
ResultOrNone(prepared, f, label) ==
    IF label \in DOMAIN prepared THEN prepared[label]
    ELSE IF label \in DOMAIN f /\ ~_is_error(f[label]) THEN f[label]
    ELSE NoneValue

\* a slip that reports the status warning for both risk labels
WarningReasonRiskMixed(label) ==
    CASE label = "insights" -> "insights_unavailable"
      [] label = "predictions" -> "predictions_unavailable"
      [] label = "tasks" -> "tasks_unavailable"
      [] label = "tasks_sprayings" -> "tasks_sprayings_unavailable"
      [] label = "risk1" -> "risk_status_unavailable"
      [] label = "risk2" -> "risk_status_unavailable"

WarningReason(label) ==
    CASE label = "insights" -> "insights_unavailable"
      [] label = "predictions" -> "predictions_unavailable"
      [] label = "tasks" -> "tasks_unavailable"
      [] label = "tasks_sprayings" -> "tasks_sprayings_unavailable"
      [] label = "risk1" -> "risk_recommendations_unavailable"
      [] label = "risk2" -> "risk_status_unavailable"

\* errors_by_label restricted to optional_labels, in dict order
OptionalErrors(req, prepared, f) ==
    LET IsOptionalError(l) == l \in OptionalLabels(req) /\ l \in DOMAIN f /\ _is_error(f[l])
    IN  SelectSeq(ConfigOrder, IsOptionalError)

\* the warnings loop of _combined_fields_single
Warnings(req, prepared, f) ==
    LET Unavailable(l) == "isNone" \in DOMAIN ResultOrNone(prepared, f, l)
        errs == SelectSeq(OptionalErrors(req, prepared, f), Unavailable)
    IN  [i \in 1..Len(errs) |-> WarningReason(errs[i])]

\* _summarize_response of prepared_cache.get(label) or fetched.get(label)
_summarize_response(prepared, f, label) ==
    IF label \in DOMAIN prepared THEN [label |-> label, ok |-> TRUE, source |-> "cache"]
    ELSE IF label \notin DOMAIN f THEN [label |-> label, ok |-> FALSE, status |-> "missing"]
    ELSE IF _is_error(f[label]) THEN [label |-> label, ok |-> FALSE, exception_type |-> f[label].kind]
    ELSE [label |-> label, ok |-> TRUE, source |-> "api"]

Diagnostics(req, prepared, f) ==
    [l \in {"base", "insights", "predictions"} \cup (IF req.includeTasks THEN {"tasks"} ELSE {})
        |-> _summarize_response(prepared, f, l)]

\* fields_map = {field['uuid']: field for field in base fieldsV2}; list(fields_map.values())
RECURSIVE FieldsMap(_, _)
FieldsMap(fields, out) ==
    IF fields = << >> THEN out ELSE FieldsMap(Tail(fields), PutByUuid(out, Head(fields)))

\* cs_map[cs_update['uuid']].update(cs_update) for every season of the update
\* list whose uuid the core list already holds; other seasons are skipped
RECURSIVE UpdateHeldSeasons(_, _)
UpdateHeldSeasons(core_seasons, update_seasons) ==
    IF update_seasons = << >> THEN core_seasons
    ELSE LET cs == Head(update_seasons)
             held == { i \in 1..Len(core_seasons) :
                         HasUuid(cs) /\ HasUuid(core_seasons[i]) /\ core_seasons[i].uuid = cs.uuid }
         IN  UpdateHeldSeasons(
                IF held = {} THEN core_seasons
                ELSE LET last == CHOOSE i \in held : \A j \in held : j <= i
                     IN  [core_seasons EXCEPT ![last] = DictUpdate(@, cs)],
                Tail(update_seasons))

\* one field update applied to the fields of the core list with the same uuid
ApplyFieldUpdate(core_fields, field_update) ==
    [i \in 1..Len(core_fields) |->
        IF HasUuid(field_update) /\ HasUuid(core_fields[i])
           /\ core_fields[i].uuid = field_update.uuid
           /\ ListOrEmpty(GetCropSeasons(field_update)) # << >>
        THEN DictUpdate(core_fields[i],
                [cropSeasonsV2 |-> ListValue(UpdateHeldSeasons(
                    ListOrEmpty(GetCropSeasons(core_fields[i])),
                    ListOrEmpty(GetCropSeasons(field_update))))])
        ELSE core_fields[i]]

RECURSIVE ApplyFieldUpdates(_, _)
ApplyFieldUpdates(core_fields, updates) ==
    IF updates = << >> THEN core_fields
    ELSE ApplyFieldUpdates(ApplyFieldUpdate(core_fields, Head(updates)), Tail(updates))

\* _merge_cropseason_payload on the fieldsV2 of two sub-query results (None = no result)
_merge_cropseason_payload(core, extra) ==
    IF extra.isNone THEN core
    ELSE IF core.isNone THEN extra
    ELSE ListValue(ApplyFieldUpdates(core.items, extra.items))

\* the optional sources only update crop seasons the base field already holds
merge_fields_data(base_data, insights_data, predictions_data, tasks_data) ==
    ApplyFieldUpdates(
        ApplyFieldUpdates(
            ApplyFieldUpdates(FieldsMap(base_data, << >>), ListOrEmpty(insights_data)),
            ListOrEmpty(predictions_data)),
        ListOrEmpty(tasks_data))

\* the three _merge_cropseason_payload steps into tasks_res, then merge_fields_data;
\* r maps each optional label to its fieldsV2 or None
MergeSubResponses(base_fields, r) ==
    LET tasks_res == _merge_cropseason_payload(
                        _merge_cropseason_payload(
                            _merge_cropseason_payload(r["tasks"], r["tasks_sprayings"]),
                            r["risk1"]),
                        r["risk2"])
    IN  merge_fields_data(base_fields, r["insights"], r["predictions"], tasks_res)

\* fieldsV2 of prepared_cache.get(label) or fetched.get(label), None when there is no ok result
SubFields(prepared, f, label) ==
    IF "isNone" \in DOMAIN ResultOrNone(prepared, f, label) THEN NoneValue
    ELSE ListValue(ResultOrNone(prepared, f, label).fields)

MergedOfCall(prepared, f) ==
    MergeSubResponses(ListOrEmpty(SubFields(prepared, f, "base")),
                      [l \in OptionalNames |-> SubFields(prepared, f, l)])

\* a slip that lets an optional error fail the call like a critical one
CriticalErrorsAnyLabel(prepared, f) ==
    { l \in DOMAIN f : _is_error(f[l]) }

\* critical_errors: the errors of errors_by_label whose label is 'base'
CriticalErrors(prepared, f) ==
    { l \in DOMAIN f : _is_error(f[l]) /\ l \in {"base"} }

\* a slip that treats a failed base like a failed optional sub-query
SingleOutcomeBaseOptional(req, prepared, f) ==
    [kind |-> "return", ok |-> TRUE, status |-> 200,
     source |-> IF PlanLabels(req, prepared) = {} THEN "cache" ELSE "api",
     fields |-> MergedOfCall(prepared, f),
     warnings |-> Warnings(req, prepared, f)]

\* what _combined_fields_single returns or raises once every sub-query is settled
SingleOutcome(req, prepared, f) ==
    IF CriticalErrors(prepared, f) # {}
    THEN [kind |-> "raise", status |-> 500, reason |-> "combined_fields_failed",
          diagnostics |-> Diagnostics(req, prepared, f)]
    ELSE IF "isNone" \in DOMAIN ResultOrNone(prepared, f, "base")
    THEN [kind |-> "raise", status |-> 500, reason |-> "base_missing",
          diagnostics |-> Diagnostics(req, prepared, f)]
    ELSE [kind |-> "return", ok |-> TRUE, status |-> 200,
          source |-> IF PlanLabels(req, prepared) = {} THEN "cache" ELSE "api",
          fields |-> MergedOfCall(prepared, f),
          warnings |-> Warnings(req, prepared, f)]

\* error check, warnings, merge and response of _combined_fields_single
Report ==
    /\ spc = "report"
    /\ spc' = "done"
    /\ sresult' = SingleOutcome(sreq, prepared_cache, fetched)
    /\ UNCHANGED <<sreq, prepared_cache, fetched, baseCalls, expired, insightsTries, mergeVars, chunkVars, sideVars>>

NextSingle == PlanFetch \/ FetchBase \/ RetryBase \/ FetchOptional \/ RetryInsights \/ Report

SpecSingle == InitSingle /\ [][NextSingle]_vars

(***************************************************************************)
(* The single-call merge applied to drawn sub-query responses              *)
(***************************************************************************)
MaxSeasons == 2

\* crop season number j as the sub-query `label` returns it
SeasonFrom(label, j) ==
    DictUpdate([uuid |-> "s" \o ToString(j)], [k \in {label} |-> j])

\* field u1 with its first n crop seasons, as the sub-query `label` returns it
FieldFrom(label, n) ==
    [uuid |-> "u1", cropSeasonsV2 |-> ListValue([j \in 1..n |-> SeasonFrom(label, j)])]

\* fieldsV2 of an ok response of `label`, or None for a failed sub-query
SubResponseValues(label) ==
    {NoneValue, ListValue(<< >>)} \cup { ListValue(<<FieldFrom(label, n)>>) : n \in 0..MaxSeasons }

InitSubMerge ==
    /\ mpc = "sub_input"
    /\ \E b \in SubResponseValues("base") \ {NoneValue},
          i \in SubResponseValues("insights"), p \in SubResponseValues("predictions"),
          t \in SubResponseValues("tasks"), ts \in SubResponseValues("tasks_sprayings"),
          r1 \in SubResponseValues("risk1"), r2 \in SubResponseValues("risk2") :
            subResponses = [base |-> b, insights |-> i, predictions |-> p, tasks |-> t,
                            tasks_sprayings |-> ts, risk1 |-> r1, risk2 |-> r2]
    /\ mergedFields = << >>
    /\ X = << >> /\ mergedOnce = << >> /\ mergedTwice = << >> /\ mergedPair = << >>
    /\ InitSingleIdle
    /\ InitChunkIdle
    /\ InitSideIdle

\* the merge step of _combined_fields_single on the drawn responses
MergeDrawnResponses ==
    /\ mpc = "sub_input"
    /\ mpc' = "sub_merged"
    /\ mergedFields' = MergeSubResponses(ListOrEmpty(subResponses["base"]),
                                         [l \in OptionalNames |-> subResponses[l]])
    /\ UNCHANGED <<X, mergedOnce, mergedTwice, mergedPair, subResponses, singleVars, chunkVars, sideVars>>

NextSubMerge == MergeDrawnResponses

SpecSubMerge == InitSubMerge /\ [][NextSubMerge]_vars

(***************************************************************************)
(* Response cache overlay (services/cache.py) under two identical calls of *)
(* _combined_fields_single.  A payload is named by the label it is built   *)
(* for; the base retry without boundary has a payload of its own.          *)
(***************************************************************************)
\* payload["operationName"] of the request_configs entry of a label
OperationName(label) ==
    CASE label = "base" -> "CombinedDataBase"
      [] label = "insights" -> "CombinedDataInsights"
      [] label = "predictions" -> "CombinedDataPredictions"
      [] OTHER -> "CombinedFieldData"

\* the operation the cache lookup of _combined_fields_single asks for
LookupOperation(label) == IF label = "base" THEN "CombinedDataBase" ELSE "CombinedFieldData"

_get_cache_key(operation, payload) == <<operation, payload>>

save_response(cache, operation_name, payload, resp) ==
    DictUpdate(cache, [k \in {_get_cache_key(operation_name, payload)} |-> resp])

get_by_operation(cache, operation_name, payload) ==
    IF _get_cache_key(operation_name, payload) \in DOMAIN cache
    THEN cache[_get_cache_key(operation_name, payload)]
    ELSE NoneValue

\* call_graphql saves the envelope of every HTTP answer, ok or not, before it
\* raises on status >= 400; a call without an answer (TimeoutResult) saves nothing
SavedByCall(cache, payload, res) ==
    IF res.kind = "timeout" THEN cache
    ELSE save_response(cache, OperationName(IF payload = "base_retry" THEN "base" ELSE payload),
                       payload, res)

\* prepared_cache: the cached envelopes of the applicable labels whose ok is not False
PreparedFrom(req, cache) ==
    LET hit == { l \in { ConfigOrder[i] : i \in 1..Len(ConfigOrder) } :
                    /\ Applicable(req, l)
                    /\ "kind" \in DOMAIN get_by_operation(cache, LookupOperation(l), l)
                    /\ get_by_operation(cache, LookupOperation(l), l).kind = "ok" }
    IN  [l \in hit |-> get_by_operation(cache, LookupOperation(l), l)]

\* payload_for_cache: the tasks payload, or the base payload without tasks
PayloadForCache(req) == IF req.includeTasks THEN "tasks" ELSE "base"

CacheBaseOutcomes == {OkResult(<<Field1>>), ErrorResult, TimeoutResult}

InitCache ==
    /\ spc = "plan"
    /\ sreq \in [includeTasks : BOOLEAN, withSprayingsV2 : BOOLEAN, withBoundarySvg : BOOLEAN]
    /\ prepared_cache = EmptyDict /\ fetched = EmptyDict /\ baseCalls = 0
    /\ expired = FALSE /\ insightsTries = 0 /\ sresult = EmptyDict
    /\ by_operation = EmptyDict /\ callNo = 1 /\ issued = << >> /\ firstCall = EmptyDict
    /\ cpc = "idle" /\ creq = EmptyDict /\ pass = 0 /\ farm_chunks = << >> /\ chunkIdx = 0
    /\ attempt = 0 /\ last_error = "none" /\ successes = << >> /\ failures = << >>
    /\ retried_failed_farms = << >> /\ cresult = EmptyDict
    /\ InitMergeIdle
    /\ InitStreamIdle
    /\ InitTokenIdle
    /\ InitRouteIdle
    /\ InitTraceIdle
    /\ InitSchedIdle
    /\ InitOrderIdle
    /\ InitExtraIdle

\* cache lookup and fetch_plan against the saved envelopes
LookupCache ==
    /\ spc = "plan"
    /\ prepared_cache' = PreparedFrom(sreq, by_operation)
    /\ spc' = IF "base" \notin DOMAIN PreparedFrom(sreq, by_operation) THEN "base"
              ELSE Advance(sreq, PreparedFrom(sreq, by_operation), EmptyDict)
    /\ UNCHANGED <<sreq, fetched, baseCalls, expired, insightsTries, sresult, cacheVars,
                   notCache>>

\* the base call and, after a failure with withBoundarySvg, its retry
CallBase ==
    /\ spc \in {"base", "base_retry"}
    /\ \E res \in CacheBaseOutcomes, late \in BOOLEAN :
        /\ fetched' = SetFetched(fetched, "base", res)
        /\ expired' = (expired \/ late)
        /\ spc' = IF spc = "base" /\ _is_error(res) /\ sreq.withBoundarySvg THEN "base_retry"
                  ELSE Advance(sreq, prepared_cache, SetFetched(fetched, "base", res))
        /\ by_operation' = SavedByCall(by_operation, spc, res)
    /\ baseCalls' = baseCalls + 1
    /\ issued' = Append(issued, "base")
    /\ UNCHANGED <<sreq, prepared_cache, insightsTries, sresult, callNo, firstCall,
                   notCache>>

\* one iteration of the optional loop
CallOptional ==
    /\ spc = "optional"
    /\ LET i == CHOOSE j \in PendingOptional(sreq, prepared_cache, fetched) :
                    \A k \in PendingOptional(sreq, prepared_cache, fetched) : j <= k
           label == ConfigOrder[i]
       IN  IF expired
           THEN /\ fetched' = SetFetched(fetched, label, TimeoutResult)
                /\ spc' = Advance(sreq, prepared_cache, SetFetched(fetched, label, TimeoutResult))
                /\ UNCHANGED <<expired, by_operation, issued>>
           ELSE \E res \in OptionalOutcomes :
                /\ fetched' = SetFetched(fetched, label, res)
                /\ expired' = (res.kind = "timeout")
                /\ spc' = Advance(sreq, prepared_cache, SetFetched(fetched, label, res))
                /\ by_operation' = SavedByCall(by_operation, label, res)
                /\ issued' = Append(issued, label)
    /\ UNCHANGED <<sreq, prepared_cache, baseCalls, insightsTries, sresult, callNo, firstCall,
                   notCache>>

\* one attempt of the dedicated insights retry loop
CallInsightsRetry ==
    /\ spc = "insights_retry"
    /\ insightsTries < insights_attempts
    /\ insightsTries' = insightsTries + 1
    /\ \E res \in {OkResult(<< >>), ErrorResult} :
        /\ IF _is_error(res) /\ insightsTries + 1 < insights_attempts
           THEN spc' = "insights_retry" /\ fetched' = fetched
           ELSE spc' = "report" /\ fetched' = SetFetched(fetched, "insights", res)
        /\ by_operation' = SavedByCall(by_operation, "insights", res)
    /\ issued' = Append(issued, "insights")
    /\ UNCHANGED <<sreq, prepared_cache, baseCalls, expired, sresult, callNo, firstCall,
                   notCache>>

\* error check, merge, response and the save of the aggregate under CombinedFieldData
SaveAndReport ==
    /\ spc = "report"
    /\ spc' = "done"
    /\ sresult' = SingleOutcome(sreq, prepared_cache, fetched)
    /\ by_operation' =
          IF SingleOutcome(sreq, prepared_cache, fetched).kind = "return"
          THEN save_response(by_operation, "CombinedFieldData", PayloadForCache(sreq),
                             OkResult(SingleOutcome(sreq, prepared_cache, fetched).fields))
          ELSE by_operation
    /\ UNCHANGED <<sreq, prepared_cache, fetched, baseCalls, expired, insightsTries,
                   callNo, issued, firstCall, notCache>>

\* the client sends the same request again (same day, cache not cleared)
RepeatCall ==
    /\ spc = "done"
    /\ callNo = 1
    /\ sresult.kind = "return"
    /\ callNo' = 2
    /\ firstCall' = [fetched |-> fetched, issued |-> issued]
    /\ spc' = "plan"
    /\ prepared_cache' = EmptyDict /\ fetched' = EmptyDict /\ baseCalls' = 0
    /\ expired' = FALSE /\ insightsTries' = 0 /\ sresult' = EmptyDict /\ issued' = << >>
    /\ UNCHANGED <<sreq, by_operation, notCache>>

NextCache ==
    LookupCache \/ CallBase \/ CallOptional \/ CallInsightsRetry \/ SaveAndReport \/ RepeatCall

SpecCache == InitCache /\ [][NextCache]_vars

(***************************************************************************)
(* Streaming branch of _combined_fields_single (req.stream) and streamer() *)
(***************************************************************************)
\* what an awaited call_graphql task gives: the envelope or the raised HTTPException
StreamOutcomes == {"ok", "error"}

TasksOf(list, labels) == { <<list, l>> : l \in labels }

\* one more call_graphql invocation for each of the labels
CountCalls(calls, labels) ==
    [l \in (DOMAIN calls) \cup labels |->
        (IF l \in DOMAIN calls THEN calls[l] ELSE 0) + (IF l \in labels THEN 1 ELSE 0)]

InitStream ==
    /\ stpc = "start"
    /\ sreq \in [includeTasks : BOOLEAN, withSprayingsV2 : BOOLEAN, stream : {TRUE}]
    /\ inflight = {} /\ streamCalls = EmptyDict /\ emitted = << >>
    /\ spc = "idle" /\ prepared_cache = EmptyDict /\ fetched = EmptyDict /\ baseCalls = 0
    /\ expired = FALSE /\ insightsTries = 0 /\ sresult = EmptyDict
    /\ InitMergeIdle
    /\ cpc = "idle" /\ creq = EmptyDict /\ pass = 0 /\ farm_chunks = << >> /\ chunkIdx = 0
    /\ attempt = 0 /\ last_error = "none" /\ successes = << >> /\ failures = << >>
    /\ retried_failed_farms = << >> /\ cresult = EmptyDict
    /\ InitCacheIdle
    /\ InitTokenIdle
    /\ InitRouteIdle
    /\ InitTraceIdle
    /\ InitSchedIdle
    /\ InitOrderIdle
    /\ InitExtraIdle

\* the cache check of the streaming branch: every applicable label cached ok
\* answers with one JSON object; otherwise streamer() creates tasks_map
StartStreaming ==
    /\ stpc = "start"
    /\ \E all_labels_ready \in BOOLEAN :
        IF all_labels_ready
        THEN /\ stpc' = "json"
             /\ UNCHANGED <<inflight, streamCalls>>
        ELSE /\ stpc' = "await_base"
             /\ inflight' = TasksOf("tasks_map", ApplicableLabels(sreq))
             /\ streamCalls' = CountCalls(streamCalls, ApplicableLabels(sreq))
    /\ UNCHANGED <<emitted, singleVars, notStream>>

\* base_res = await tasks_map["base"]; on success the base record is yielded
\* and other_tasks is created; a raised HTTPException leaves the generator
AwaitBase ==
    /\ stpc = "await_base"
    /\ \E res \in StreamOutcomes :
        IF res = "ok"
        THEN /\ emitted' = Append(emitted, [type |-> "base", ok |-> TRUE])
             /\ inflight' = (inflight \ {<<"tasks_map", "base">>})
                                \cup TasksOf("other_tasks", ApplicableLabels(sreq) \ {"base"})
             /\ streamCalls' = CountCalls(streamCalls, ApplicableLabels(sreq) \ {"base"})
             /\ stpc' = "as_completed"
        ELSE /\ stpc' = "aborted"
             /\ inflight' = inflight \ {<<"tasks_map", "base">>}
             /\ UNCHANGED <<emitted, streamCalls>>
    /\ UNCHANGED <<singleVars, notStream>>

\* one task of other_tasks completes; _run_labeled turns an exception into ok=false
YieldOptional ==
    /\ stpc = "as_completed"
    /\ \E label \in ApplicableLabels(sreq) \ {"base"}, res \in StreamOutcomes :
        /\ <<"other_tasks", label>> \in inflight
        /\ inflight' = inflight \ {<<"other_tasks", label>>}
        /\ emitted' = Append(emitted, [type |-> label, ok |-> (res = "ok")])
    /\ UNCHANGED <<stpc, streamCalls, singleVars, notStream>>

\* every task of other_tasks is consumed: the summary is logged and 'done' is yielded
YieldDone ==
    /\ stpc = "as_completed"
    /\ \A t \in inflight : t[1] # "other_tasks"
    /\ emitted' = Append(emitted, [type |-> "done", ok |-> TRUE])
    /\ stpc' = "closed"
    /\ UNCHANGED <<inflight, streamCalls, singleVars, notStream>>

NextStream == StartStreaming \/ AwaitBase \/ YieldOptional \/ YieldDone

SpecStream == InitStream /\ [][NextStream]_vars

(***************************************************************************)
(* The streaming branch with the completion of a task told apart from the  *)
(* moment streamer() consumes it: asyncio.as_completed hands the tasks of  *)
(* other_tasks over in the order they finish, one per `await task`.  A     *)
(* task stays in inflight until its result is consumed.                    *)
(***************************************************************************)
InitStreamOrder == InitStream /\ ~sreq.withSprayingsV2

CompletedLabels == { completed[i].type : i \in 1..Len(completed) }

OptionalEmitted == SelectSeq(emitted, LAMBDA r : r.type \notin {"base", "done"})

\* the k-th future of asyncio.as_completed: the k-th task to finish
NextCompleted(done, k) == done[k]

\* a task of other_tasks finishes; _run_labeled turns an exception into ok=false
CompleteOptional ==
    /\ stpc = "as_completed"
    /\ \E label \in ApplicableLabels(sreq) \ {"base"}, res \in StreamOutcomes :
        /\ <<"other_tasks", label>> \in inflight
        /\ label \notin CompletedLabels
        /\ completed' = Append(completed, [type |-> label, ok |-> (res = "ok")])
    /\ UNCHANGED <<streamVars, singleVars, mergeVars, chunkVars, cacheVars, tokenVars, routeVars,
                   traceVars, schedVars, extraVars>>

\* label, res = await task; the record is yielded
YieldCompleted ==
    /\ stpc = "as_completed"
    /\ Len(OptionalEmitted) < Len(completed)
    /\ LET record == NextCompleted(completed, Len(OptionalEmitted) + 1)
       IN  /\ emitted' = Append(emitted, record)
           /\ inflight' = inflight \ {<<"other_tasks", record.type>>}
    /\ UNCHANGED <<stpc, streamCalls, singleVars, notStream>>

NextStreamOrder == StartStreaming \/ AwaitBase \/ CompleteOptional \/ YieldCompleted \/ YieldDone

SpecStreamOrder == InitStreamOrder /\ [][NextStreamOrder]_vars

\* a single aggregation call in either mode: batch (not req.stream) or streaming
InitModes == InitSingle \/ InitStream

NextModes == NextSingle \/ NextStream

SpecModes == InitModes /\ [][NextModes]_vars

(***************************************************************************)
(* Credentials in what call_graphql and the aggregation calls hand back.   *)
(* A header value is the sequence of the pieces its f-string joins.        *)
(***************************************************************************)
Tokens == {"tokA", "tokB", "tokC"}

\* headers of the upstream request of call_graphql
RequestHeaders(login_token, api_token) ==
    [Accept |-> <<"application/json">>,
     Cookie |-> <<"LOGIN_TOKEN=", login_token, "; DF_TOKEN=", api_token>>]

\* a slip that copies the request headers into the envelope as they were sent
EnvelopeHeadersAsSent(headers) == headers

\* {**headers, "Cookie": "MASKED"}
EnvelopeHeaders(headers) == DictUpdate(headers, [Cookie |-> <<"MASKED">>])

UpstreamAnswers == {"ok", "http_error", "transport_error"}

\* call_graphql: the returned envelope, or the HTTPException it raises
call_graphql(payload, login_token, api_token, answer) ==
    LET out == [ok |-> (answer = "ok"), status |-> IF answer = "ok" THEN 200 ELSE 500,
                request |-> [headers |-> EnvelopeHeaders(RequestHeaders(login_token, api_token)),
                             payload |-> payload]]
    IN  IF answer = "transport_error"
        THEN [kind |-> "raise", status |-> 502,
              detail |-> [reason |-> "graphql request error", exception_type |-> "HTTPError"]]
        ELSE IF answer = "http_error"
        THEN [kind |-> "raise", status |-> 500, detail |-> out]
        ELSE [kind |-> "return", envelope |-> out]

\* _summarize_response(label, res) of an envelope or of an exception
SummaryOf(label, res) ==
    IF res.kind = "raise"
    THEN [label |-> label, ok |-> FALSE, error |-> res.detail, exception_type |-> "HTTPException"]
    ELSE [label |-> label, ok |-> res.envelope.ok, status |-> res.envelope.status,
          operationName |-> res.envelope.request.payload]

\* out["request"] of _combined_fields_single, built from the base envelope
SingleRequestEcho(base_res, includeTokens) ==
    [headers |-> IF ~includeTokens
                 THEN DictUpdate(base_res.request.headers,
                                 [Cookie |-> <<"LOGIN_TOKEN=", "***", "; DF_TOKEN=", "***">>])
                 ELSE base_res.request.headers,
     payload |-> base_res.request.payload]

\* out["request"]["headers"] of _combined_fields_chunked
ChunkedRequestHeaders(includeTokens) ==
    IF ~includeTokens THEN [Cookie |-> <<"LOGIN_TOKEN=", "***", "; DF_TOKEN=", "***">>]
    ELSE EmptyDict

\* everything one run hands back for its base sub-query
RunOutput(login_token, api_token, includeTokens, answer) ==
    LET res == call_graphql("CombinedDataBase", login_token, api_token, answer)
    IN  [call |-> res,
         summary |-> SummaryOf("base", res),
         single |-> IF res.kind = "return"
                    THEN [kind |-> "return", request |-> SingleRequestEcho(res.envelope, includeTokens)]
                    ELSE [kind |-> "raise", diagnostics |-> SummaryOf("base", res)],
         chunked |-> ChunkedRequestHeaders(includeTokens)]

InitToken ==
    /\ tkpc = "input"
    /\ tokenRuns \in [login1 : Tokens, api1 : Tokens, login2 : Tokens, api2 : Tokens,
                       includeTokens : BOOLEAN, answer : UpstreamAnswers]
    /\ tokenOut = << >>
    /\ InitMergeIdle
    /\ InitSingleIdle
    /\ cpc = "idle" /\ creq = EmptyDict /\ pass = 0 /\ farm_chunks = << >> /\ chunkIdx = 0
    /\ attempt = 0 /\ last_error = "none" /\ successes = << >> /\ failures = << >>
    /\ retried_failed_farms = << >> /\ cresult = EmptyDict
    /\ InitCacheIdle
    /\ InitStreamIdle
    /\ InitRouteIdle
    /\ InitTraceIdle
    /\ InitSchedIdle
    /\ InitOrderIdle
    /\ InitExtraIdle

\* both runs are answered, with identical upstream behaviour
AnswerBothRuns ==
    /\ tkpc = "input"
    /\ tkpc' = "answered"
    /\ tokenOut' = << RunOutput(tokenRuns.login1, tokenRuns.api1, tokenRuns.includeTokens,
                                tokenRuns.answer),
                      RunOutput(tokenRuns.login2, tokenRuns.api2, tokenRuns.includeTokens,
                                tokenRuns.answer) >>
    /\ UNCHANGED <<tokenRuns, mergeVars, singleVars, chunkVars, cacheVars, streamVars, routeVars, traceVars, schedVars, orderVars, extraVars>>

NextToken == AnswerBothRuns

SpecToken == InitToken /\ [][NextToken]_vars

(***************************************************************************)
(* Chunked fan-out controller: _combined_fields_chunked                    *)
(***************************************************************************)
MaxFarms == 3
MaxChunkSize == 2
MaxChunkAttempts == 2

\* truncation of the reported identifier lists ([:100]) and chunk lists ([:50])
ReportedUuidLimit == 100
ReportedChunkLimit == 50

\* a farm the upstream knows that the caller did not ask for
ForeignFarm == MaxFarms + 1

Max(a, b) == IF a >= b THEN a ELSE b
Min(a, b) == IF a <= b THEN a ELSE b

\* items[:n]
Prefix(items, n) == SubSeq(items, 1, Min(n, Len(items)))

_chunk_list(items, size) ==
    LET n == Max(1, size)
    IN  [c \in 1..((Len(items) + n - 1) \div n) |->
            SubSeq(items, (c - 1) * n + 1, Min(c * n, Len(items)))]

\* a slip that counts the caller's list as it came
KeepDuplicates(items) == items

\* list(dict.fromkeys(items)): first occurrences, in order
Dedupe(items) ==
    LET firsts == { i \in 1..Len(items) : \A j \in 1..(i - 1) : items[j] # items[i] }
    IN  [k \in 1..Cardinality(firsts) |->
            items[CHOOSE i \in firsts : Cardinality({ j \in firsts : j < i }) = k - 1]]

RECURSIVE Flatten(_)
Flatten(lists) == IF lists = << >> THEN << >> ELSE Head(lists) \o Flatten(Tail(lists))

Range(seq) == { seq[i] : i \in 1..Len(seq) }

\* the farm uuids of the fields that carry one, first occurrences in order
_extract_farm_uuids_from_fields(fields) ==
    LET HasFarm(f) == "farmV2" \in DOMAIN f
        owned == SelectSeq(fields, HasFarm)
    IN  Dedupe([i \in 1..Len(owned) |-> owned[i].farmV2])

\* the field the upstream holds for a farm
FarmField(farm) == [uuid |-> "u" \o ToString(farm), farmV2 |-> farm]
OrphanField == [uuid |-> "u_orphan", name |-> "A"]

\* the sub-request of a chunk: stream off, boundary off, sub responses off
SubReq == [includeTasks |-> TRUE, withSprayingsV2 |-> FALSE, withBoundarySvg |-> FALSE]

\* settled sub-query outcomes of one run of the single pipeline for a chunk
ChunkFetched(base, insights) ==
    [l \in PlanLabels(SubReq, EmptyDict) |->
        IF l = "base" THEN base ELSE IF l = "insights" THEN insights ELSE OkResult(<< >>)]

\* field lists the upstream may return for a chunk: any selection of the
\* chunk's farms and of a farm outside the request, or one field without a farm
ChunkFieldLists(farm_chunk) ==
    LET pool == farm_chunk \o <<ForeignFarm>>
    IN  { [i \in 1..Len(sel) |-> FarmField(sel[i])] :
            sel \in { SelectSeq(pool, LAMBDA x : x \in S) : S \in SUBSET Range(pool) } }
        \cup { <<OrphanField>> }

\* what one run of the single pipeline on a chunk may return or raise: base
\* failed, base ok with any of the field lists, or base ok with the chunk's own
\* fields and insights timed out
ChunkRuns(farm_chunk) ==
    { SingleOutcome(SubReq, EmptyDict, ChunkFetched(b, OkResult(<< >>))) :
        b \in { OkResult(fl) : fl \in ChunkFieldLists(farm_chunk) } \cup {ErrorResult} }
    \cup { SingleOutcome(SubReq, EmptyDict,
                ChunkFetched(OkResult([i \in 1..Len(farm_chunk) |-> FarmField(farm_chunk[i])]),
                             TimeoutResult)) }

NoError == [status |-> 0]

\* the flags combined_fields hands to the chunked controller: the forced
\* reliability mode (strict, boundary off), or the caller's request as it is
\* (CombinedFieldsReq carries neither requireComplete nor includeSubResponses)
RoutedFlags ==
    { [requireComplete |-> TRUE, withBoundarySvg |-> FALSE, includeSubResponses |-> FALSE] }
    \cup { [requireComplete |-> FALSE, withBoundarySvg |-> wb, includeSubResponses |-> FALSE] :
            wb \in BOOLEAN }

InitChunked ==
    /\ cpc = "start"
    /\ creq \in { [farm_uuids |-> [i \in 1..n |-> i], chunk_size |-> cs,
                   per_chunk_attempts |-> pa, requireComplete |-> fl.requireComplete,
                   withBoundarySvg |-> fl.withBoundarySvg,
                   includeSubResponses |-> fl.includeSubResponses] :
                    n \in 1..MaxFarms, cs \in 1..MaxChunkSize, pa \in 1..MaxChunkAttempts,
                    fl \in RoutedFlags }
    /\ pass = 0 /\ farm_chunks = << >> /\ chunkIdx = 0 /\ attempt = 0
    /\ last_error = NoError /\ successes = << >> /\ failures = << >>
    /\ retried_failed_farms = << >> /\ cresult = EmptyDict
    /\ InitSingleIdle
    /\ InitMergeIdle
    /\ InitSideIdle

\* initial_chunks = _chunk_list(farms, chunk_size) and the start of the first pass
StartChunked ==
    /\ cpc = "start"
    /\ farm_chunks' = _chunk_list(creq.farm_uuids, creq.chunk_size)
    /\ pass' = 1
    /\ chunkIdx' = 1
    /\ attempt' = 1
    /\ cpc' = IF _chunk_list(creq.farm_uuids, creq.chunk_size) = << >> THEN "pass_end" ELSE "pass"
    /\ UNCHANGED <<creq, last_error, successes, failures, retried_failed_farms, cresult,
                   mergeVars, singleVars, sideVars>>

\* a response counts as a chunk success: status < 400, ok is not False, fieldsV2 a list
IsChunkSuccess(resp) == resp.kind = "return" /\ resp.status < 400 /\ resp.ok

\* last_error of a failed attempt: status and detail of the HTTPException, or
\* status and body of the error response
ChunkError(resp) ==
    IF resp.kind = "raise"
    THEN [status |-> resp.status,
          detail |-> [reason |-> resp.reason, diagnostics |-> resp.diagnostics]]
    ELSE [status |-> resp.status, body |-> [ok |-> resp.ok]]

\* a loop that runs one attempt too many
HasNextAttemptInclusive(n, per_chunk_attempts) == n <= per_chunk_attempts

\* for attempt in range(1, per_chunk_attempts + 1): another attempt follows
HasNextAttempt(n, per_chunk_attempts) == n < per_chunk_attempts

\* one attempt of _run_combined_chunk_pass on the current chunk, resp being
\* what _combined_fields_single returned or raised
RunChunkAttempt(resp) ==
    LET farm_chunk == farm_chunks[chunkIdx]
        error == ChunkError(resp)
        lastChunk == chunkIdx = Len(farm_chunks)
    IN  IF IsChunkSuccess(resp)
        THEN /\ successes' = Append(successes, [ok |-> resp.ok, status |-> resp.status,
                    fields |-> IF "fields" \in DOMAIN resp THEN resp.fields ELSE << >>,
                    warnings |-> IF "warnings" \in DOMAIN resp THEN resp.warnings ELSE << >>])
             /\ failures' = failures
             /\ last_error' = NoError
             /\ chunkIdx' = chunkIdx + 1
             /\ attempt' = 1
             /\ cpc' = IF lastChunk THEN "pass_end" ELSE "pass"
        ELSE IF HasNextAttempt(attempt, creq.per_chunk_attempts)
        THEN /\ last_error' = error
             /\ attempt' = attempt + 1
             /\ UNCHANGED <<successes, failures, chunkIdx, cpc>>
        ELSE /\ failures' = Append(failures, [farmUuids |-> farm_chunk, error |-> error])
             /\ last_error' = NoError
             /\ successes' = successes
             /\ chunkIdx' = chunkIdx + 1
             /\ attempt' = 1
             /\ cpc' = IF lastChunk THEN "pass_end" ELSE "pass"

ChunkAttempt ==
    /\ cpc = "pass"
    /\ \E resp \in ChunkRuns(farm_chunks[chunkIdx]) : RunChunkAttempt(resp)
    /\ UNCHANGED <<creq, pass, farm_chunks, retried_failed_farms, cresult, mergeVars, singleVars, sideVars>>

\* a retry round that takes the farms of the last failed chunk only
LastFailedFarmUuids(fails) == fails[Len(fails)].farmUuids

\* failed_farm_uuids: the farms of the failed chunks, first occurrences in order
FailedFarmUuids(fails) ==
    Dedupe(Flatten([i \in 1..Len(fails) |-> fails[i].farmUuids]))

\* the retry round: the farms of the failed chunks, re-chunked, run once more
RetryRound ==
    /\ cpc = "pass_end"
    /\ pass = 1
    /\ failures # << >>
    /\ LET failed_farm_uuids == FailedFarmUuids(failures)
       IN  /\ retried_failed_farms' = failed_farm_uuids
           /\ farm_chunks' = _chunk_list(failed_farm_uuids, creq.chunk_size)
    /\ pass' = 2
    /\ chunkIdx' = 1
    /\ attempt' = 1
    /\ failures' = << >>
    /\ cpc' = "pass"
    /\ UNCHANGED <<creq, last_error, successes, cresult, mergeVars, singleVars, sideVars>>

\* missing_farm_uuids = [u for u in requested_farm_uuids if u not in covered_farm_uuid_set]
MissingFarms(requested, covered) ==
    LET NotCovered(u) == u \notin covered IN SelectSeq(requested, NotCovered)

\* the warnings list of the chunked response (reasons only)
ChunkedWarnings(req, succ, fails, retried, missing) ==
    Flatten([i \in 1..Len(succ) |-> succ[i].warnings])
    \o (IF req.withBoundarySvg THEN <<"boundary_omitted_for_large_request">> ELSE << >>)
    \o (IF req.includeSubResponses THEN <<"sub_responses_omitted_for_large_request">> ELSE << >>)
    \o (IF fails # << >> THEN <<"chunked_fetch_partial">> ELSE << >>)
    \o (IF retried # << >> THEN <<"failed_farms_retried">> ELSE << >>)
    \o (IF missing # << >> THEN <<"missing_farms_in_merged_response">> ELSE << >>)

\* a slip that lets a strict call return its partial result
StrictFailsNever(req, fails, missing) == FALSE

\* require_complete and (failures or missing_farm_uuids)
StrictFails(req, fails, missing) ==
    req.requireComplete /\ (fails # << >> \/ missing # << >>)

\* a slip that returns an empty merge when no chunk succeeded
AllChunksFailedNever(succ) == FALSE

\* not successes
AllChunksFailed(succ) == succ = << >>

\* a slip that reports every result as degraded
HasIncompleteAlways(fails, missing) == TRUE

\* has_incomplete = len(failures) > 0 or len(missing_farm_uuids) > 0
HasIncomplete(fails, missing) == Len(fails) > 0 \/ Len(missing) > 0

\* what _combined_fields_chunked returns or raises after the passes
ChunkedOutcome(req, succ, fails, retried) ==
    LET merged_fields == _merge_fields_v2_by_uuid([i \in 1..Len(succ) |-> succ[i].fields])
        requested_farm_uuids == Dedupe(req.farm_uuids)
        covered_farm_uuid_set == Range(_extract_farm_uuids_from_fields(merged_fields))
        missing_farm_uuids == MissingFarms(requested_farm_uuids, covered_farm_uuid_set)
    IN  IF AllChunksFailed(succ)
        THEN [kind |-> "raise", status |-> 502, reason |-> "combined_fields_all_chunks_failed",
              failed_chunks |-> Prefix(fails, ReportedChunkLimit)]
        ELSE IF StrictFails(req, fails, missing_farm_uuids)
        THEN [kind |-> "raise", status |-> 502, reason |-> "combined_fields_incomplete",
              failed_chunks |-> Prefix(fails, ReportedChunkLimit),
              partial_fields |-> Len(merged_fields),
              missing_farm_uuids |-> Prefix(missing_farm_uuids, ReportedUuidLimit),
              retried_failed_farm_uuids |-> Prefix(retried, ReportedUuidLimit)]
        ELSE [kind |-> "return",
              ok |-> ~HasIncomplete(fails, missing_farm_uuids),
              status |-> IF ~HasIncomplete(fails, missing_farm_uuids) THEN 200 ELSE 206,
              source |-> "api",
              diagnostics |->
                [requestedFarmCount |-> Len(requested_farm_uuids),
                 coveredFarmCount |-> Cardinality(covered_farm_uuid_set),
                 missingFarmUuids |-> Prefix(missing_farm_uuids, ReportedUuidLimit),
                 retriedFailedFarmUuids |-> Prefix(retried, ReportedUuidLimit)],
              fields |-> merged_fields,
              warnings |-> ChunkedWarnings(req, succ, fails, retried, missing_farm_uuids)]

\* merge, completeness check and response, after the last pass
FinishChunked ==
    /\ cpc = "pass_end"
    /\ pass = 2 \/ failures = << >>
    /\ cpc' = "done"
    /\ cresult' = ChunkedOutcome(creq, successes, failures, retried_failed_farms)
    /\ UNCHANGED <<creq, pass, farm_chunks, chunkIdx, attempt, last_error, successes, failures,
                   retried_failed_farms, mergeVars, singleVars, sideVars>>

NextChunked == StartChunked \/ ChunkAttempt \/ RetryRound \/ FinishChunked

(***************************************************************************)
(* The aggregation entry point runs a request either as one single call or *)
(* through the chunked controller.                                         *)
(***************************************************************************)
Init == InitSingle \/ InitChunked

Next == NextSingle \/ NextChunked

Spec == Init /\ [][Next]_vars

(***************************************************************************)
(* Large requests: more farms than the reported identifier lists hold.     *)
(* The upstream answers a chunk with no field, with the field of its       *)
(* first farm, or not at all.                                              *)
(***************************************************************************)
LargeChunkSize == 50

LargeChunkRuns(farm_chunk) ==
    { SingleOutcome(SubReq, EmptyDict, ChunkFetched(b, OkResult(<< >>))) :
        b \in { OkResult(<< >>),
                OkResult(<<FarmField(farm_chunk[1])>>),
                ErrorResult } }

InitLarge ==
    /\ cpc = "start"
    /\ creq \in { [farm_uuids |-> [i \in 1..n |-> i], chunk_size |-> LargeChunkSize,
                   per_chunk_attempts |-> 1, requireComplete |-> fl.requireComplete,
                   withBoundarySvg |-> fl.withBoundarySvg,
                   includeSubResponses |-> fl.includeSubResponses] :
                    n \in {ReportedUuidLimit, ReportedUuidLimit + 1}, fl \in RoutedFlags }
    /\ pass = 0 /\ farm_chunks = << >> /\ chunkIdx = 0 /\ attempt = 0
    /\ last_error = NoError /\ successes = << >> /\ failures = << >>
    /\ retried_failed_farms = << >> /\ cresult = EmptyDict
    /\ InitSingleIdle
    /\ InitMergeIdle
    /\ InitSideIdle

ChunkAttemptLarge ==
    /\ cpc = "pass"
    /\ \E resp \in LargeChunkRuns(farm_chunks[chunkIdx]) : RunChunkAttempt(resp)
    /\ UNCHANGED <<creq, pass, farm_chunks, retried_failed_farms, cresult, mergeVars, singleVars, sideVars>>

NextLarge == StartChunked \/ ChunkAttemptLarge \/ RetryRound \/ FinishChunked

SpecLarge == InitLarge /\ [][NextLarge]_vars

(***************************************************************************)
(* The passes of the chunked controller, attempt by attempt.  A run of the *)
(* single pipeline on a chunk returns the chunk's fields or an empty list, *)
(* or raises because the base query failed or timed out.                   *)
(***************************************************************************)
PassRuns(farm_chunk) ==
    { SingleOutcome(SubReq, EmptyDict, ChunkFetched(b, OkResult(<< >>))) :
        b \in { OkResult([i \in 1..Len(farm_chunk) |-> FarmField(farm_chunk[i])]),
                OkResult(<< >>), ErrorResult, TimeoutResult } }

InitPass ==
    /\ cpc = "start"
    /\ creq \in { [farm_uuids |-> [i \in 1..n |-> i], chunk_size |-> cs,
                   per_chunk_attempts |-> pa, requireComplete |-> fl.requireComplete,
                   withBoundarySvg |-> fl.withBoundarySvg,
                   includeSubResponses |-> fl.includeSubResponses] :
                    n \in 1..MaxFarms, cs \in 1..MaxChunkSize, pa \in 1..MaxChunkAttempts,
                    fl \in RoutedFlags }
    /\ pass = 0 /\ farm_chunks = << >> /\ chunkIdx = 0 /\ attempt = 0
    /\ last_error = NoError /\ successes = << >> /\ failures = << >>
    /\ retried_failed_farms = << >> /\ cresult = EmptyDict
    /\ InitSingleIdle
    /\ InitMergeIdle
    /\ InitSideIdle

\* one attempt on the current chunk, written down in the log of that chunk
LoggedChunkAttempt ==
    /\ cpc = "pass"
    /\ \E resp \in PassRuns(farm_chunks[chunkIdx]) :
        /\ RunChunkAttempt(resp)
        /\ LET run == [success |-> IsChunkSuccess(resp),
                       error |-> IF IsChunkSuccess(resp) THEN NoError ELSE ChunkError(resp)]
           IN  runLog' = IF runLog.pass = pass /\ runLog.chunk = chunkIdx
                         THEN [runLog EXCEPT !.runs = Append(@, run)]
                         ELSE [pass |-> pass, chunk |-> chunkIdx, runs |-> <<run>>]
    /\ UNCHANGED <<creq, pass, farm_chunks, retried_failed_farms, cresult, mergeVars, singleVars,
                   cacheVars, streamVars, tokenVars, routeVars, schedVars, orderVars,
                   extraVars>>

NextPass == StartChunked \/ LoggedChunkAttempt \/ RetryRound \/ FinishChunked

SpecPass == InitPass /\ [][NextPass]_vars

(***************************************************************************)
(* The batch scheduler of _combined_fields_single on a clock.  An upstream *)
(* call is issued when the scheduler awaits it; the upstream's answer and  *)
(* the time it takes are drawn when the call is issued.  asyncio.wait_for  *)
(* hands over the answer when it arrives before the timeout and cancels    *)
(* the call with a TimeoutError otherwise.                                 *)
(***************************************************************************)
BaseTimeoutSec == 2         \* COMBINED_FIELDS_BASE_TIMEOUT_SEC
OptionalTimeoutSec == 2     \* COMBINED_FIELDS_OPTIONAL_TIMEOUT_SEC
MaxDelay == 2               \* longest time the upstream takes to answer

\* timeout=max(base_timeout_sec, 60.0) of the base retry
RetryTimeoutFloor == 60
\* insights_delay
insights_delay == 3

SchedAnswers == { OkResult(<<Field1>>), ErrorResult }

\* what the cache holds before the call: nothing, base, or a 'tasks' entry
\* of an earlier aggregate whose embedded sub responses also serve insights
SchedCacheStates(req) ==
    { [l \in c |-> OkResult(<<Field1>>)] :
        c \in { c \in {{}, {"base"}, {"tasks", "insights"}} : \A l \in c : Applicable(req, l) } }

\* the call as it is issued: label, where in the scheduler, when, the timeout
\* it is awaited with (0: awaited without a timeout), and the upstream's answer
IssuedCall(label, phase, timeout, answer, d) ==
    [label |-> label, phase |-> phase, at |-> now, timeout |-> timeout,
     answer |-> answer, answerAt |-> now + d]

\* asyncio.wait_for(call, timeout): the outcome and the time it is handed over
AwaitedResult(call) ==
    IF call.timeout = 0 \/ call.answerAt - call.at < call.timeout
    THEN [res |-> call.answer, at |-> call.answerAt]
    ELSE [res |-> TimeoutResult, at |-> call.at + call.timeout]

LastIssued == issuedLog[Len(issuedLog)]

\* a budget that is handed whole to every optional call
RemainingPerCall == OptionalTimeoutSec

\* remaining = optional_timeout_sec - (loop.time() - start_t)
Remaining == OptionalTimeoutSec - (now - start_t)

NextOptionalLabel ==
    ConfigOrder[CHOOSE j \in PendingOptional(sreq, prepared_cache, fetched) :
                    \A k \in PendingOptional(sreq, prepared_cache, fetched) : j <= k]

InitSched ==
    /\ spc = "plan"
    /\ sreq \in [includeTasks : BOOLEAN, withSprayingsV2 : {FALSE}, withBoundarySvg : BOOLEAN]
    /\ prepared_cache = EmptyDict
    /\ fetched = EmptyDict
    /\ baseCalls = 0
    /\ expired = FALSE
    /\ insightsTries = 0
    /\ sresult = EmptyDict
    /\ InitChunkIdle
    /\ InitMergeIdle
    /\ InitCacheIdle /\ InitStreamIdle /\ InitTokenIdle /\ InitRouteIdle /\ InitTraceIdle
    /\ InitSchedIdle
    /\ InitOrderIdle
    /\ InitExtraIdle

\* a scheduler that goes to the optional labels straight after planning
AfterPlanOptionalFirst(req, c) == Advance(req, c, EmptyDict)

\* what runs first: `if "base" in plan_map`, else the optional loop
AfterPlan(req, c) ==
    IF "base" \notin DOMAIN c THEN "base" ELSE Advance(req, c, EmptyDict)

\* cache lookup, fetch_plan and start_t
SchedPlan ==
    /\ spc = "plan"
    /\ \E c \in SchedCacheStates(sreq) :
        /\ prepared_cache' = c
        /\ spc' = AfterPlan(sreq, c)
    /\ start_t' = now
    /\ UNCHANGED <<sreq, fetched, baseCalls, expired, insightsTries, sresult, now, awaited,
                   issuedLog, notSched>>

\* the scheduler starts to await a call
Issue(label, phase, timeout) ==
    /\ awaited = {}
    /\ \E answer \in SchedAnswers, d \in 0..MaxDelay :
        issuedLog' = Append(issuedLog, IssuedCall(label, phase, timeout, answer, d))
    /\ awaited' = {label}
    /\ UNCHANGED <<singleVars, now, start_t, notSched>>

\* await asyncio.wait_for(plan_map["base"], timeout=base_timeout_sec)
IssueBase == spc = "base" /\ Issue("base", "base", BaseTimeoutSec)

SettleBase ==
    /\ spc = "base"
    /\ awaited = {"base"}
    /\ LET got == AwaitedResult(LastIssued)
           f == SetFetched(fetched, "base", got.res)
       IN  /\ fetched' = f
           /\ now' = got.at
           /\ spc' = IF _is_error(got.res) /\ sreq.withBoundarySvg THEN "base_retry"
                     ELSE Advance(sreq, prepared_cache, f)
    /\ awaited' = {}
    /\ baseCalls' = baseCalls + 1
    /\ UNCHANGED <<sreq, prepared_cache, expired, insightsTries, sresult, start_t, issuedLog,
                   notSched>>

\* the retry of base without boundary
IssueBaseRetry ==
    spc = "base_retry" /\ Issue("base", "base_retry", Max(BaseTimeoutSec, RetryTimeoutFloor))

SettleBaseRetry ==
    /\ spc = "base_retry"
    /\ awaited = {"base"}
    /\ LET got == AwaitedResult(LastIssued)
           f == SetFetched(fetched, "base", got.res)
       IN  /\ fetched' = f
           /\ now' = got.at
           /\ spc' = Advance(sreq, prepared_cache, f)
    /\ awaited' = {}
    /\ baseCalls' = baseCalls + 1
    /\ UNCHANGED <<sreq, prepared_cache, expired, insightsTries, sresult, start_t, issuedLog,
                   notSched>>

\* remaining <= 0: the label is given a TimeoutError and is not awaited
SkipOptional ==
    /\ spc = "optional"
    /\ awaited = {}
    /\ Remaining <= 0
    /\ LET f == SetFetched(fetched, NextOptionalLabel, TimeoutResult)
       IN  /\ fetched' = f
           /\ spc' = Advance(sreq, prepared_cache, f)
    /\ UNCHANGED <<sreq, prepared_cache, baseCalls, expired, insightsTries, sresult,
                   schedVars, notSched>>

\* await asyncio.wait_for(plan_map[label], timeout=remaining)
IssueOptional ==
    /\ spc = "optional"
    /\ Remaining > 0
    /\ Issue(NextOptionalLabel, "loop", Remaining)

SettleOptional ==
    /\ spc = "optional"
    /\ awaited # {}
    /\ LET got == AwaitedResult(LastIssued)
           f == SetFetched(fetched, LastIssued.label, got.res)
       IN  /\ fetched' = f
           /\ now' = got.at
           /\ spc' = Advance(sreq, prepared_cache, f)
    /\ awaited' = {}
    /\ UNCHANGED <<sreq, prepared_cache, baseCalls, expired, insightsTries, sresult, start_t,
                   issuedLog, notSched>>

\* a retry loop that goes on after an answer
EndsRetryAtLimitOnly(res, tries) == tries >= insights_attempts

\* break after an answer, or after the last attempt
EndsRetry(res, tries) == ~_is_error(res) \/ tries >= insights_attempts

\* insights_result = await call_graphql(payload_insights, ...)
IssueInsightsRetry ==
    /\ spc = "insights_retry"
    /\ insightsTries < insights_attempts
    /\ Issue("insights", "insights_retry", 0)

\* the attempt ends the loop, or is followed by asyncio.sleep(insights_delay)
SettleInsightsRetry ==
    /\ spc = "insights_retry"
    /\ awaited = {"insights"}
    /\ LET got == AwaitedResult(LastIssued)
       IN  IF ~EndsRetry(got.res, insightsTries + 1)
           THEN /\ now' = got.at + insights_delay
                /\ UNCHANGED <<spc, fetched>>
           ELSE /\ now' = got.at
                /\ spc' = "report"
                /\ fetched' = SetFetched(fetched, "insights", got.res)
    /\ insightsTries' = insightsTries + 1
    /\ awaited' = {}
    /\ UNCHANGED <<sreq, prepared_cache, baseCalls, expired, sresult, start_t, issuedLog,
                   notSched>>

SchedReport ==
    /\ spc = "report"
    /\ spc' = "done"
    /\ sresult' = SingleOutcome(sreq, prepared_cache, fetched)
    /\ UNCHANGED <<sreq, prepared_cache, fetched, baseCalls, expired, insightsTries,
                   schedVars, notSched>>

NextSched ==
    \/ SchedPlan
    \/ IssueBase \/ SettleBase
    \/ IssueBaseRetry \/ SettleBaseRetry
    \/ SkipOptional \/ IssueOptional \/ SettleOptional
    \/ IssueInsightsRetry \/ SettleInsightsRetry
    \/ SchedReport

SpecSched == InitSched /\ [][NextSched]_vars

(***************************************************************************)
(* The entry point combined_fields: de-duplication, limits and routing.    *)
(* The limits are read from the environment; small values are drawn here.  *)
(***************************************************************************)
MaxRouteLen == 4
MaxRouteIds == 2

\* farm_uuids of a request: identifiers with repetitions
RouteFarmLists == UNION { [1..k -> 1..MaxRouteIds] : k \in 0..MaxRouteLen }

\* getattr(req, name, False)
FlagOf(req, name) == IF name \in DOMAIN req THEN req[name] ELSE FALSE

\* len(farms) >= threshold
AtChunkThreshold(n, threshold) == n >= threshold

\* combined_fields(req) under the limits env
combined_fields(req, env) ==
    LET farms == Dedupe(req.farm_uuids)
        deduped == DictUpdate(req, [farm_uuids |-> farms])
        hard_max_farms == Max(env.sync_max_farms, env.hard_max_farms)
    IN  IF Len(farms) > hard_max_farms
        THEN [kind |-> "raise", status |-> 422, reason |-> "too_many_farms"]
        ELSE IF Len(farms) > env.sync_max_farms
        THEN [kind |-> "chunked",
              req |-> DictUpdate(deduped, [stream |-> FALSE, requireComplete |-> TRUE,
                                           withBoundarySvg |-> FALSE,
                                           includeSubResponses |-> FALSE])]
        ELSE IF ~req.stream /\ AtChunkThreshold(Len(farms), env.threshold)
        THEN [kind |-> "chunked", req |-> deduped]
        ELSE [kind |-> "single", req |-> deduped]

InitRoute ==
    /\ rpc = "request"
    /\ routeIn \in [req : [farm_uuids : RouteFarmLists, stream : BOOLEAN, withBoundarySvg : BOOLEAN],
                     env : [sync_max_farms : 1..MaxRouteIds, hard_max_farms : 1..MaxRouteIds,
                            threshold : 1..MaxRouteIds]]
    /\ route = EmptyDict
    /\ InitMergeIdle
    /\ InitSingleIdle
    /\ cpc = "idle" /\ creq = EmptyDict /\ pass = 0 /\ farm_chunks = << >> /\ chunkIdx = 0
    /\ attempt = 0 /\ last_error = "none" /\ successes = << >> /\ failures = << >>
    /\ retried_failed_farms = << >> /\ cresult = EmptyDict
    /\ InitCacheIdle
    /\ InitStreamIdle
    /\ InitTokenIdle
    /\ InitTraceIdle
    /\ InitSchedIdle
    /\ InitOrderIdle
    /\ InitExtraIdle

RouteRequest ==
    /\ rpc = "request"
    /\ rpc' = "routed"
    /\ route' = combined_fields(routeIn.req, routeIn.env)
    /\ UNCHANGED <<routeIn, mergeVars, singleVars, chunkVars, cacheVars, streamVars, tokenVars, traceVars, schedVars, orderVars, extraVars>>

NextRoute == RouteRequest

SpecRoute == InitRoute /\ [][NextRoute]_vars

(***************************************************************************)
(* Vocabulary of the properties                                            *)
(***************************************************************************)
SingleDone == spc = "done"
ChunkedDone == cpc = "done"

\* base was fetched and its last fetch ended in an error or a timeout
BaseFetchFailed == "base" \in DOMAIN fetched /\ fetched["base"].kind # "ok"

\* base was served from the cache or its last fetch succeeded
BaseSucceeded ==
    "base" \in DOMAIN prepared_cache \/ ("base" \in DOMAIN fetched /\ fetched["base"].kind = "ok")


\* the final outcome of an optional label is an error or a timeout
OptionalFailed(l) == l \in DOMAIN fetched /\ fetched[l].kind # "ok"

UnavailableEntry ==
    [l \in OptionalNames |->
        CASE l = "insights" -> "insights_unavailable"
          [] l = "predictions" -> "predictions_unavailable"
          [] l = "tasks" -> "tasks_unavailable"
          [] l = "tasks_sprayings" -> "tasks_sprayings_unavailable"
          [] l = "risk1" -> "risk_recommendations_unavailable"
          [] l = "risk2" -> "risk_status_unavailable"]

FieldUuids(fields) == { fields[i].uuid : i \in { j \in 1..Len(fields) : "uuid" \in DOMAIN fields[j] } }

\* the farms owning the fields of a list
OwningFarms(fields) == { fields[i].farmV2 : i \in { j \in 1..Len(fields) : "farmV2" \in DOMAIN fields[j] } }

\* the fields of every successful chunk, merged
MergedOfSuccesses == _merge_fields_v2_by_uuid([i \in 1..Len(successes) |-> successes[i].fields])

\* the requested farms no merged field belongs to
UncoveredFarms == Range(creq.farm_uuids) \ OwningFarms(MergedOfSuccesses)

(***************************************************************************)
(* C1: in a non-streaming single call, when base is not served from the    *)
(* cache and its fetch ends in an error (after the retry, if any), the     *)
(* call fails: it raises an error and returns no field list, whatever the  *)
(* optional sub-queries did.                                               *)
(***************************************************************************)
CriticalFailureFailsCall ==
    SingleDone /\ BaseFetchFailed =>
        /\ sresult.kind = "raise"
        /\ sresult.status >= 400
        /\ "fields" \notin DOMAIN sresult

\* base failed twice (fetch and retry) while every optional sub-query succeeded
CriticalFailureWitness ==
    /\ SingleDone /\ BaseFetchFailed /\ baseCalls = 2
    /\ sreq.includeTasks /\ sreq.withSprayingsV2
    /\ \A l \in OptionalNames : l \in DOMAIN fetched /\ fetched[l].kind = "ok"
    /\ sresult.kind = "raise"

WarningsMatchFailures ==
    SingleDone /\ BaseSucceeded =>
        \A l \in OptionalNames :
            OptionalFailed(l) <=> UnavailableEntry[l] \in Range(sresult.warnings)

\* risk1 failed and risk2 succeeded: only the recommendations warning is there
WarningsWitness ==
    /\ SingleDone /\ BaseSucceeded
    /\ OptionalFailed("risk1") /\ "risk2" \in DOMAIN fetched /\ ~OptionalFailed("risk2")
    /\ OptionalFailed("tasks")
    /\ "risk_recommendations_unavailable" \in Range(sresult.warnings)
    /\ "tasks_unavailable" \in Range(sresult.warnings)
    /\ "risk_status_unavailable" \notin Range(sresult.warnings)

(***************************************************************************)
(* C4: chunked controller, non-strict mode, at least one chunk succeeded   *)
(* and at least one chunk still failed after the retry round: the response *)
(* has ok = false and status 206, its fieldsV2 holds the fields of every   *)
(* successful chunk, and diagnostics.missingFarmUuids lists exactly the    *)
(* requested identifiers not covered by those fields.                      *)
(***************************************************************************)
PartialResultReportsMissing ==
    ChunkedDone /\ ~creq.requireComplete /\ successes # << >> /\ failures # << >> =>
        /\ cresult.kind = "return"
        /\ cresult.ok = FALSE
        /\ cresult.status = 206
        /\ \A i \in 1..Len(successes) : FieldUuids(successes[i].fields) \subseteq FieldUuids(cresult.fields)
        /\ Range(cresult.diagnostics.missingFarmUuids) = Range(creq.farm_uuids) \ OwningFarms(cresult.fields)

\* the same, for requests whose missing identifiers fit the reported list
PartialResultReportsMissingSmall ==
    Cardinality(UncoveredFarms) <= ReportedUuidLimit => PartialResultReportsMissing

\* farms 1, 2, 3 in chunks of one; farm 2 failed in both passes
PartialResultScenario ==
    /\ ChunkedDone /\ ~creq.requireComplete
    /\ creq.farm_uuids = <<1, 2, 3>> /\ creq.chunk_size = 1
    /\ pass = 2 /\ Len(failures) = 1 /\ failures[1].farmUuids = <<2>>
    /\ OwningFarms(cresult.fields) = {1, 3}
    /\ cresult.ok = FALSE /\ cresult.status = 206
    /\ cresult.diagnostics.missingFarmUuids = <<2>>

(***************************************************************************)
(* C5: chunked controller: when no chunk succeeds in the first pass nor in *)
(* the retry round, the call fails with combined_fields_all_chunks_failed  *)
(* and returns no merged result, in strict and non-strict mode alike.      *)
(***************************************************************************)
AllChunksFailedFails ==
    ChunkedDone /\ successes = << >> =>
        /\ cresult.kind = "raise"
        /\ cresult.reason = "combined_fields_all_chunks_failed"
        /\ "fields" \notin DOMAIN cresult

\* a non-strict call whose two chunks failed in both passes
AllChunksFailedWitness ==
    /\ ChunkedDone /\ successes = << >> /\ pass = 2 /\ Len(failures) = 2
    /\ ~creq.requireComplete
    /\ cresult.kind = "raise"

CoveredSubsetOfRequested ==
    ChunkedDone /\ cresult.kind = "return" =>
        /\ OwningFarms(cresult.fields) \subseteq Range(creq.farm_uuids)
        /\ cresult.diagnostics.coveredFarmCount <= cresult.diagnostics.requestedFarmCount

(***************************************************************************)
(* C8: in every result or strict-mode error of the chunked controller,     *)
(* every requested identifier not covered by the merged fields is in the   *)
(* reported missing-identifier list, for any number of missing identifiers *)
(* up to the hard maximum request size.                                    *)
(***************************************************************************)
EveryMissingReported ==
    /\ ChunkedDone /\ cresult.kind = "return" =>
          UncoveredFarms \subseteq Range(cresult.diagnostics.missingFarmUuids)
    /\ ChunkedDone /\ cresult.kind = "raise" /\ cresult.reason = "combined_fields_incomplete" =>
          UncoveredFarms \subseteq Range(cresult.missing_farm_uuids)

\* the same, for requests whose missing identifiers fit the reported list
EveryMissingReportedSmall ==
    Cardinality(UncoveredFarms) <= ReportedUuidLimit => EveryMissingReported

(***************************************************************************)
(* C9: a result carries ok = false only when the critical sub-query        *)
(* failed, or in strict mode when an identifier is missing or a chunk      *)
(* failed; a non-strict call whose critical sub-query succeeded never      *)
(* returns ok = false.                                                     *)
(***************************************************************************)
OkFalseOnlyCriticalOrStrict ==
    /\ SingleDone /\ sresult.kind = "return" /\ ~sresult.ok => BaseFetchFailed
    /\ ChunkedDone /\ cresult.kind = "return" /\ ~cresult.ok =>
          \/ failures # << >>
          \/ creq.requireComplete /\ UncoveredFarms # {}

(***************************************************************************)
(* C9, amended: a returned result carries ok = false only in the chunked   *)
(* controller's non-strict mode, and only when a chunk failed permanently  *)
(* or a requested identifier is not covered by the merged fields (a strict *)
(* call raises an error in these cases); a single call that returns a      *)
(* result always returns ok = true.                                        *)
(***************************************************************************)
OkFalseOnlyNonStrictIncomplete ==
    /\ SingleDone /\ sresult.kind = "return" => sresult.ok /\ BaseSucceeded
    /\ ChunkedDone /\ cresult.kind = "return" /\ ~cresult.ok =>
          /\ ~creq.requireComplete
          /\ failures # << >> \/ UncoveredFarms # {}
    /\ ChunkedDone /\ cresult.kind = "return" /\ cresult.ok =>
          failures = << >> /\ UncoveredFarms = {}

\* every chunk succeeded, one farm has no field: ok = false, status 206
OkFalseWitness ==
    /\ ChunkedDone /\ ~creq.requireComplete /\ failures = << >> /\ pass = 1
    /\ UncoveredFarms # {}
    /\ cresult.kind = "return" /\ ~cresult.ok /\ cresult.status = 206

(***************************************************************************)
(* C10: _merge_fields_v2_by_uuid is idempotent: merging [X, X] gives the   *)
(* same field list as merging [X], for every drawn X, repeated field and   *)
(* crop season uuids included (dicts are compared without key order).      *)
(***************************************************************************)
MergeIdempotent == mpc = "merged" => mergedTwice = mergedOnce

\* X repeats a field uuid and a crop season uuid, and the merge has been applied.
MergeIdempotentWitness ==
    /\ mpc = "merged"
    /\ Len(X) = 2 /\ HasUuid(X[1]) /\ HasUuid(X[2]) /\ X[1].uuid = X[2].uuid
    /\ GetCropSeasons(X[1]) = ListValue(<<SeasonA1, SeasonA2>>)
    /\ GetCropSeasons(X[2]) = ListValue(<<SeasonA1>>)
    /\ Len(mergedOnce) = 1
    /\ mergedOnce[1].cropSeasonsV2 = ListValue(<<SeasonA1>>)

(***************************************************************************)
(* C11: for two sources A then B that each hold a field uuid once, the     *)
(* merged field has the keys of both, with A's value for a key only A has, *)
(* B's value for a key only B has and B's value for a key both have; the   *)
(* same holds for a crop season uuid that each of the two fields holds     *)
(* once.  cropSeasonsV2 itself is the nested collection, merged by uuid.   *)
(***************************************************************************)
\* the uuids of the entries of a list that carry one
UuidsOf(list) == { list[i].uuid : i \in { j \in 1..Len(list) : HasUuid(list[j]) } }

\* exactly one entry of the list carries this uuid
HoldsOnce(list, key) ==
    Cardinality({ i \in 1..Len(list) : HasUuid(list[i]) /\ list[i].uuid = key }) = 1

EntryOf(list, key) == list[CHOOSE i \in 1..Len(list) : HasUuid(list[i]) /\ list[i].uuid = key]

ScalarKeys(d) == (DOMAIN d) \ {"cropSeasonsV2"}

\* m has on the keys ks exactly what a overlaid by b has
LastWinsOn(m, a, b, ks) ==
    \A k \in ks : /\ k \in DOMAIN m <=> (k \in DOMAIN a \/ k \in DOMAIN b)
                  /\ k \in DOMAIN m => m[k] = IF k \in DOMAIN b THEN b[k] ELSE a[k]

AllKeys == {"uuid", "name", "farmV2", "area", "stage", "yield"}

SeasonsOf(f) == ListOrEmpty(GetCropSeasons(f))

LastSourceWins ==
    mpc = "merged" =>
        \A key \in UuidsOf(SourceA) :
            (HoldsOnce(SourceA, key) /\ HoldsOnce(SourceB, key)) =>
                LET a == EntryOf(SourceA, key)
                    b == EntryOf(SourceB, key)
                IN  /\ HoldsOnce(mergedPair, key)
                    /\ LET m == EntryOf(mergedPair, key) IN
                        /\ ScalarKeys(m) \subseteq AllKeys
                        /\ LastWinsOn(m, a, b, AllKeys)
                        /\ \A sk \in UuidsOf(SeasonsOf(a)) :
                              (HoldsOnce(SeasonsOf(a), sk) /\ HoldsOnce(SeasonsOf(b), sk)) =>
                                  /\ HoldsOnce(SeasonsOf(m), sk)
                                  /\ DOMAIN EntryOf(SeasonsOf(m), sk) \subseteq AllKeys
                                  /\ LastWinsOn(EntryOf(SeasonsOf(m), sk),
                                                EntryOf(SeasonsOf(a), sk),
                                                EntryOf(SeasonsOf(b), sk), AllKeys)

\* A and B hold field u1 with a key only A has (farmV2), a key only B has
\* (area) and a conflicting key (name); their crop season s1 likewise.
LastSourceWinsWitness ==
    /\ mpc = "merged"
    /\ SourceA = << [uuid |-> "u1", name |-> "B", farmV2 |-> 1,
                     cropSeasonsV2 |-> ListValue(<<SeasonA1>>)] >>
    /\ SourceB = << [uuid |-> "u1", name |-> "C", area |-> 5,
                     cropSeasonsV2 |-> ListValue(<<SeasonAy, SeasonNoUuid>>)] >>
    /\ mergedPair = << [uuid |-> "u1", name |-> "C", farmV2 |-> 1, area |-> 5,
                        cropSeasonsV2 |-> ListValue(<< [uuid |-> "s1", stage |-> 1, yield |-> 7] >>)] >>
(***************************************************************************)
(* C12: every crop season uuid a source entry of a field carries is in the *)
(* cropSeasonsV2 of that field in the merged output, whatever the later    *)
(* entries of the same field carry (no cropSeasonsV2 key, None, or an      *)
(* empty list).                                                            *)
(***************************************************************************)
\* every season uuid seen on an entry of `sources` for a field is on the merged field
SeasonsKept(sources, merged) ==
    \A i \in 1..Len(sources) :
        HasUuid(sources[i]) =>
            /\ HoldsOnce(merged, sources[i].uuid)
            /\ UuidsOf(SeasonsOf(sources[i]))
                   \subseteq UuidsOf(SeasonsOf(EntryOf(merged, sources[i].uuid)))

CropSeasonsNeverDeleted ==
    mpc = "merged" => SeasonsKept(X, mergedOnce) /\ SeasonsKept(X, mergedPair)

\* the later entry of field u1 sets cropSeasonsV2 to None; s1 and s2 stay
CropSeasonsNeverDeletedWitness ==
    /\ mpc = "merged"
    /\ Len(X) = 2
    /\ X[1] = [uuid |-> "u1", name |-> "A", cropSeasonsV2 |-> ListValue(<<SeasonA2, SeasonB1>>)]
    /\ X[2] = [uuid |-> "u1", name |-> "B", farmV2 |-> 1, cropSeasonsV2 |-> NoneValue]
    /\ mergedPair = << [uuid |-> "u1", name |-> "B", farmV2 |-> 1,
                        cropSeasonsV2 |-> ListValue(<<SeasonA2, SeasonB1>>)] >>
    /\ mergedOnce = mergedPair
(***************************************************************************)
(* C13: every crop season uuid that a successful sub-query response of a   *)
(* single call carries for a field is in that field's cropSeasonsV2 in the *)
(* merged output (for the fields the output holds), also when only an      *)
(* Optional source carries it.                                             *)
(***************************************************************************)
SubMergeLabels == OptionalNames \cup {"base"}

SeasonsOfAllSourcesKept ==
    mpc = "sub_merged" =>
        \A l \in SubMergeLabels :
            \A i \in 1..Len(ListOrEmpty(subResponses[l])) :
                LET f == ListOrEmpty(subResponses[l])[i]
                IN  HoldsOnce(mergedFields, f.uuid) =>
                        UuidsOf(SeasonsOf(f)) \subseteq UuidsOf(SeasonsOf(EntryOf(mergedFields, f.uuid)))

\* seasons the base holds are kept and updated by the optional sources
SeasonsOfBaseKept ==
    mpc = "sub_merged" =>
        \A i \in 1..Len(ListOrEmpty(subResponses["base"])) :
            LET f == ListOrEmpty(subResponses["base"])[i]
            IN  /\ HoldsOnce(mergedFields, f.uuid)
                /\ UuidsOf(SeasonsOf(f)) = UuidsOf(SeasonsOf(EntryOf(mergedFields, f.uuid)))

\* base holds season s1 of field u1, insights holds s1 and s2: s2 is not merged
SeasonOnlyInOptionalScenario ==
    /\ mpc = "sub_merged"
    /\ subResponses["base"] = ListValue(<<FieldFrom("base", 1)>>)
    /\ subResponses["insights"] = ListValue(<<FieldFrom("insights", 2)>>)
    /\ UuidsOf(SeasonsOf(EntryOf(mergedFields, "u1"))) = {"s1"}
(***************************************************************************)
(* C14: when the first call issued every applicable sub-query once and all *)
(* succeeded, the identical second call issues no upstream call and        *)
(* returns a result whose source is 'cache'.                               *)
(***************************************************************************)
\* the first call planned every applicable label, issued each once and all succeeded
FirstCallAllOk ==
    /\ callNo = 2
    /\ DOMAIN firstCall.fetched = ApplicableLabels(sreq)
    /\ \A l \in DOMAIN firstCall.fetched : firstCall.fetched[l].kind = "ok"
    /\ Len(firstCall.issued) = Cardinality(ApplicableLabels(sreq))

WarmSecondCallFromCache ==
    (FirstCallAllOk /\ spc = "done") => (issued = << >> /\ sresult.source = "cache")

\* what the second call does: base, tasks and risk come from the cache,
\* insights and predictions are fetched again
WarmSecondCallRefetches ==
    (FirstCallAllOk /\ spc \in {"report", "done"}) =>
        /\ issued # << >> /\ Head(issued) = "insights"
        /\ Range(issued) \subseteq {"insights", "predictions"}
        /\ (spc = "done" /\ sresult.kind = "return") => sresult.source = "api"
        /\ DOMAIN prepared_cache = ApplicableLabels(sreq) \ {"insights", "predictions"}

WarmSecondCallScenario ==
    /\ FirstCallAllOk /\ spc = "done"
    /\ sresult.kind = "return" /\ sresult.source = "api"
    /\ issued = <<"insights", "predictions">>
(***************************************************************************)
(* C15: every NDJSON response of the streaming branch ends with exactly    *)
(* one record of type 'done', which comes after all other records, for     *)
(* every outcome of base and of the Optional sub-queries.                  *)
(***************************************************************************)
\* the NDJSON body is over: the generator returned or an exception left it
StreamEnded == stpc \in {"closed", "aborted"}

DoneCount == Cardinality({ i \in 1..Len(emitted) : emitted[i].type = "done" })

StreamEndsWithDone ==
    StreamEnded => (emitted # << >> /\ emitted[Len(emitted)].type = "done" /\ DoneCount = 1)

\* with a successful base the stream does end with its only 'done' record
StreamEndsWithDoneAfterBase ==
    /\ stpc = "closed" => (emitted[Len(emitted)].type = "done" /\ DoneCount = 1
                           /\ emitted[1].type = "base")
    /\ stpc = "as_completed" => DoneCount = 0
    /\ stpc = "aborted" => emitted = << >>

\* base failed: the NDJSON body ends without any record
StreamAbortedScenario == stpc = "aborted" /\ emitted = << >>
(***************************************************************************)
(* C16: the envelope, the diagnostics summary and the aggregate response   *)
(* of a run do not depend on the caller's tokens: two runs that differ     *)
(* only in login_token and api_token hand back the same outputs, with      *)
(* includeTokens set or not, and no Cookie handed back holds a token.      *)
(***************************************************************************)
\* the Cookie values a run hands back
CookiesOf(o) ==
    (IF o.call.kind = "return" THEN {o.call.envelope.request.headers.Cookie}
     ELSE IF "request" \in DOMAIN o.call.detail THEN {o.call.detail.request.headers.Cookie}
     ELSE {})
    \cup (IF o.single.kind = "return" THEN {o.single.request.headers.Cookie} ELSE {})
    \cup (IF "Cookie" \in DOMAIN o.chunked THEN {o.chunked.Cookie} ELSE {})

TokensNeverReturned ==
    tkpc = "answered" =>
        /\ tokenOut[1] = tokenOut[2]
        /\ \A i \in 1..2 : \A c \in CookiesOf(tokenOut[i]) : Range(c) \cap Tokens = {}

\* two runs with different tokens and includeTokens set: the aggregate echoes "MASKED"
TokensNeverReturnedWitness ==
    /\ tkpc = "answered"
    /\ tokenRuns.login1 # tokenRuns.login2 /\ tokenRuns.api1 # tokenRuns.api2
    /\ tokenRuns.includeTokens /\ tokenRuns.answer = "ok"
    /\ tokenOut[1].single.request.headers.Cookie = <<"MASKED">>
    /\ tokenOut[2].call.envelope.request.headers.Cookie = <<"MASKED">>
(***************************************************************************)
(* C17: an Optional sub-query whose applicability condition is false       *)
(* (tasks_sprayings without withSprayingsV2; tasks and tasks_sprayings     *)
(* without includeTasks) is never issued upstream, in batch or streaming   *)
(* mode, and never gets a warning, a diagnostics entry or a record.        *)
(***************************************************************************)
ExcludedLabels(req) ==
    (IF ~req.includeTasks THEN {"tasks", "tasks_sprayings"} ELSE {})
        \cup (IF ~req.withSprayingsV2 THEN {"tasks_sprayings"} ELSE {})

ExcludedInBatch ==
    spc # "idle" =>
        \A l \in ExcludedLabels(sreq) :
            /\ l \notin DOMAIN fetched
            /\ l \notin DOMAIN prepared_cache
            /\ (spc = "done" /\ sresult.kind = "return") =>
                    \A i \in 1..Len(sresult.warnings) : sresult.warnings[i] # UnavailableEntry[l]
            /\ (spc = "done" /\ sresult.kind = "raise") => l \notin DOMAIN sresult.diagnostics

ExcludedInStream ==
    stpc # "idle" =>
        \A l \in ExcludedLabels(sreq) :
            /\ l \notin DOMAIN streamCalls
            /\ \A t \in inflight : t[2] # l
            /\ \A i \in 1..Len(emitted) : emitted[i].type # l

InapplicableExcluded == ExcludedInBatch /\ ExcludedInStream

\* includeTasks without withSprayingsV2: every applicable Optional sub-query
\* failed and is warned about, tasks_sprayings was left out
InapplicableExcludedWitness ==
    /\ spc = "done" /\ sresult.kind = "return"
    /\ sreq.includeTasks /\ ~sreq.withSprayingsV2
    /\ DOMAIN fetched = {"base", "insights", "predictions", "risk1", "risk2", "tasks"}
    /\ Len(sresult.warnings) = 5

\* a stream without tasks: five records and 'done', none for the task labels
InapplicableExcludedStreamScenario ==
    /\ stpc = "closed" /\ ~sreq.includeTasks
    /\ Len(emitted) = 6
    /\ DOMAIN streamCalls = {"base", "insights", "predictions", "risk1", "risk2"}
(***************************************************************************)
(* C18: an accepted request is run chunked exactly when its de-duplicated  *)
(* identifier count exceeds the applicable threshold: above the sync       *)
(* maximum always, strict with streaming, boundary and sub-responses off;  *)
(* non-streaming above the server chunk threshold, with the caller's flags;*)
(* every other request runs the single pipeline.                           *)
(***************************************************************************)
RouteCount == Len(Dedupe(routeIn.req.farm_uuids))

RouteAccepted == rpc = "routed" /\ route.kind # "raise"

ForcedChunked ==
    /\ route.kind = "chunked"
    /\ ~route.req.stream /\ FlagOf(route.req, "requireComplete")
    /\ ~route.req.withBoundarySvg /\ ~FlagOf(route.req, "includeSubResponses")

CallerChunked ==
    /\ route.kind = "chunked"
    /\ route.req = DictUpdate(routeIn.req, [farm_uuids |-> Dedupe(routeIn.req.farm_uuids)])

RoutedAboveThreshold ==
    RouteAccepted =>
        IF RouteCount > routeIn.env.sync_max_farms THEN ForcedChunked
        ELSE IF ~routeIn.req.stream /\ RouteCount > routeIn.env.threshold THEN CallerChunked
        ELSE route.kind = "single"

\* what the code does: the server chunk threshold itself already routes to the
\* chunked controller
RoutedFromThreshold ==
    RouteAccepted =>
        IF RouteCount > routeIn.env.sync_max_farms THEN ForcedChunked
        ELSE IF ~routeIn.req.stream /\ RouteCount >= routeIn.env.threshold THEN CallerChunked
        ELSE route.kind = "single"

\* a non-streaming request with exactly `threshold` identifiers runs chunked
RoutedAtThresholdScenario ==
    /\ RouteAccepted
    /\ ~routeIn.req.stream
    /\ RouteCount = routeIn.env.threshold /\ RouteCount <= routeIn.env.sync_max_farms
    /\ route.kind = "chunked" /\ ~FlagOf(route.req, "requireComplete")

(***************************************************************************)
(* C19: within one pass, the single pipeline is run on a chunk at most     *)
(* per_chunk_attempts times; every run of a chunk before its latest one    *)
(* failed, so no run follows a run that returned a non-error response with *)
(* a field list, which is recorded as a success at once; and a chunk is    *)
(* recorded as a failure exactly when its per_chunk_attempts-th run in a   *)
(* row failed, with the chunk's farms and the error of that last run.      *)
(***************************************************************************)
RunsOfChunk == runLog'.runs

LatestRun == RunsOfChunk[Len(RunsOfChunk)]

AttemptsOfAChunkStep ==
    runLog' # runLog =>
        /\ Len(RunsOfChunk) <= creq.per_chunk_attempts
        /\ \A i \in 1..(Len(RunsOfChunk) - 1) : ~RunsOfChunk[i].success
        /\ LatestRun.success =>
            /\ Len(successes') = Len(successes) + 1
            /\ failures' = failures
            /\ chunkIdx' = chunkIdx + 1
        /\ (~LatestRun.success /\ Len(RunsOfChunk) < creq.per_chunk_attempts) =>
            /\ successes' = successes
            /\ failures' = failures
            /\ chunkIdx' = chunkIdx
        /\ (~LatestRun.success /\ Len(RunsOfChunk) = creq.per_chunk_attempts) =>
            /\ successes' = successes
            /\ failures' = Append(failures, [farmUuids |-> farm_chunks[runLog'.chunk],
                                             error |-> LatestRun.error])
            /\ chunkIdx' = chunkIdx + 1

AttemptsOfAChunk == [][AttemptsOfAChunkStep]_vars

\* a chunk whose two runs failed for different reasons has just been recorded
\* as a failure with the error of the second run
AttemptsOfAChunkWitness ==
    /\ runLog.pass = 1
    /\ Len(runLog.runs) = 2
    /\ creq.per_chunk_attempts = 2
    /\ ~runLog.runs[1].success /\ ~runLog.runs[2].success
    /\ runLog.runs[1].error # runLog.runs[2].error
    /\ failures # << >>
    /\ failures[Len(failures)] = [farmUuids |-> farm_chunks[runLog.chunk],
                                  error |-> runLog.runs[2].error]
    /\ successes # << >>


(***************************************************************************)
(* C20: the controller runs one retry round and no more.  The second pass  *)
(* starts only when the first pass is over and left failures; its chunks   *)
(* hold the farms of the failed chunks of the first pass, and only those,  *)
(* cut by the same chunk size; the successes of the first pass stay and    *)
(* their farms are not run again; the failures of the first pass are       *)
(* replaced by the chunks failing the second pass, each with the error of  *)
(* its last run; the call ends after the second pass, or after the first   *)
(* when nothing failed.                                                    *)
(***************************************************************************)
FailedInPass == UNION { Range(failures[i].farmUuids) : i \in 1..Len(failures) }

IsFailedInPass(u) == u \in FailedInPass

PassOver == cpc = "pass_end" /\ chunkIdx = Len(farm_chunks) + 1

OneRetryRoundStep ==
    /\ pass' \in {pass, pass + 1}
    /\ pass' <= 2
    /\ Len(successes') >= Len(successes)
    /\ SubSeq(successes', 1, Len(successes)) = successes
    /\ (pass = 1 /\ pass' = 2) =>
        /\ PassOver
        /\ failures # << >>
        /\ Flatten(farm_chunks') = SelectSeq(creq.farm_uuids, IsFailedInPass)
        /\ \A c \in 1..Len(farm_chunks') :
            /\ Len(farm_chunks'[c]) >= 1
            /\ Len(farm_chunks'[c]) <= creq.chunk_size
            /\ c < Len(farm_chunks') => Len(farm_chunks'[c]) = creq.chunk_size
        /\ Range(Flatten(farm_chunks')) \cap (Range(creq.farm_uuids) \ FailedInPass) = {}
        /\ retried_failed_farms' = Flatten(farm_chunks')
        /\ successes' = successes
        /\ failures' = << >>
    /\ (runLog' # runLog /\ pass = 2) =>
        /\ Range(farm_chunks[chunkIdx]) \subseteq Range(retried_failed_farms)
        /\ failures' # failures =>
            /\ Len(RunsOfChunk) = creq.per_chunk_attempts
            /\ \A i \in 1..Len(RunsOfChunk) : ~RunsOfChunk[i].success
            /\ failures' = Append(failures, [farmUuids |-> farm_chunks[chunkIdx],
                                             error |-> LatestRun.error])
    /\ (cpc # "done" /\ cpc' = "done") =>
        /\ PassOver
        /\ pass = 1 => failures = << >>
        /\ pass = 2 => retried_failed_farms # << >>
        /\ successes' = successes /\ failures' = failures /\ pass' = pass

OneRetryRound == [][OneRetryRoundStep]_vars

\* three farms in chunks of one: the first succeeded in the first pass, the
\* second succeeded only in the retry round, the third failed both passes
OneRetryRoundWitness ==
    /\ cpc = "done"
    /\ pass = 2
    /\ creq.chunk_size = 1
    /\ creq.farm_uuids = <<1, 2, 3>>
    /\ retried_failed_farms = <<2, 3>>
    /\ Len(successes) = 2
    /\ successes[1].fields = <<FarmField(1)>>
    /\ successes[2].fields = <<FarmField(2)>>
    /\ Len(failures) = 1
    /\ failures[1].farmUuids = <<3>>
    /\ failures[1].error = runLog.runs[Len(runLog.runs)].error


(***************************************************************************)
(* C21: the scheduling loop starts no optional call once the shared budget *)
(* (optional_timeout_sec from start_t) is used up; an optional label the   *)
(* loop settled without issuing it was reached with the budget used up and *)
(* is recorded as a timeout (only the insights retry may replace it).      *)
(***************************************************************************)
Deadline == start_t + OptionalTimeoutSec

IssuedIn(phase, label) ==
    \E i \in 1..Len(issuedLog) : issuedLog[i].phase = phase /\ issuedLog[i].label = label

SkippedLabels ==
    { l \in DOMAIN fetched \ {"base"} : ~IssuedIn("loop", l) }

NoCallAfterBudget ==
    /\ \A i \in 1..Len(issuedLog) :
        issuedLog[i].phase = "loop" =>
            /\ issuedLog[i].at < Deadline
            /\ issuedLog[i].timeout = Deadline - issuedLog[i].at
    /\ \A l \in SkippedLabels :
        /\ now >= Deadline
        /\ fetched[l] = TimeoutResult \/ (l = "insights" /\ IssuedIn("insights_retry", l))

\* insights was issued by the loop and used the budget up; predictions was
\* then recorded as a timeout without a call
NoCallAfterBudgetWitness ==
    /\ spc = "done"
    /\ IssuedIn("loop", "insights")
    /\ "predictions" \in SkippedLabels
    /\ fetched["predictions"] = TimeoutResult
    /\ sresult.kind = "return"


(***************************************************************************)
(* C22: once base is settled the plan's optional sub-queries are issued    *)
(* together: when the first of them has settled, every other one has been  *)
(* issued already, none having waited for another to finish.               *)
(***************************************************************************)
PlanOptional == PlanLabels(sreq, prepared_cache) \ {"base"}

OptionalIssuedTogether ==
    \A l \in DOMAIN fetched \ {"base"} :
        IssuedIn("loop", l) => \A m \in PlanOptional : IssuedIn("loop", m)

\* what the loop does: it awaits one call at a time, and a call is issued
\* only when every call issued before it has settled
OneCallAtATime ==
    /\ Cardinality(awaited) <= 1
    /\ \A i \in 1..Len(issuedLog) : \A j \in 1..(i - 1) :
        issuedLog[i].at >= AwaitedResult(issuedLog[j]).at

\* insights has answered and predictions has not been issued yet, with budget left
OptionalOneByOneScenario ==
    /\ spc = "optional"
    /\ awaited = {}
    /\ "insights" \in DOMAIN fetched /\ IssuedIn("loop", "insights")
    /\ "predictions" \in PlanOptional /\ ~IssuedIn("loop", "predictions")
    /\ Remaining > 0


(***************************************************************************)
(* C23: in a batch call an optional sub-query is issued only when base is  *)
(* served from the cache or every base call issued has settled before it;  *)
(* the error check and the merge are reached only with base settled.       *)
(***************************************************************************)
BaseSettledBy(t) ==
    \/ "base" \in DOMAIN prepared_cache
    \/ /\ "base" \in DOMAIN fetched
       /\ "base" \notin awaited
       /\ \A j \in 1..Len(issuedLog) :
            issuedLog[j].label = "base" => AwaitedResult(issuedLog[j]).at <= t

BaseBeforeOptional ==
    /\ \A i \in 1..Len(issuedLog) :
        issuedLog[i].label # "base" =>
            /\ BaseSettledBy(issuedLog[i].at)
            /\ \A j \in 1..Len(issuedLog) : issuedLog[j].label = "base" => j < i
    /\ awaited \ {"base"} # {} => BaseSettledBy(now)
    /\ spc \in {"report", "done"} => BaseSettledBy(now)
    /\ (spc = "done" /\ sresult.kind = "return") =>
        "isNone" \notin DOMAIN ResultOrNone(prepared_cache, fetched, "base")

\* base failed once, succeeded on the retry after a while, and insights
\* was issued no earlier than the retry's answer
BaseBeforeOptionalWitness ==
    /\ spc = "done"
    /\ sresult.kind = "return"
    /\ baseCalls = 2
    /\ IssuedIn("loop", "insights")
    /\ \E i \in 1..Len(issuedLog) :
        /\ issuedLog[i].label = "insights"
        /\ issuedLog[i].at > 0
        /\ issuedLog[i].at = AwaitedResult(issuedLog[2]).at


(***************************************************************************)
(* C24: after the Critical sub-query has failed the call fails without     *)
(* issuing any Optional sub-query, the insights retries included.          *)
(***************************************************************************)
CriticalFailed == "base" \in DOMAIN fetched /\ "base" \notin awaited /\ _is_error(fetched["base"])

NoOptionalAfterCriticalFailed ==
    (CriticalFailed /\ spc # "base_retry") =>
        \A i \in 1..Len(issuedLog) : issuedLog[i].label = "base"

\* the part of the state machine the code follows: a failed base always ends
\* in the error, a settled ok base in the merged aggregate
CriticalDecidesOutcome ==
    spc = "done" =>
        (sresult.kind = "raise" <=> CriticalFailed)

\* base failed for good, then the loop issued insights and predictions and the
\* dedicated retry issued insights again, and only then the call failed
OptionalAfterCriticalFailedScenario ==
    /\ spc = "done"
    /\ sresult.kind = "raise"
    /\ CriticalFailed
    /\ IssuedIn("loop", "insights")
    /\ IssuedIn("loop", "predictions")
    /\ IssuedIn("insights_retry", "insights")


(***************************************************************************)
(* C25: when the first fetch of base fails, base is issued exactly once    *)
(* more, without boundary, whatever the request; base is never issued more *)
(* than twice in one call.                                                 *)
(***************************************************************************)
BaseIssues == { i \in 1..Len(issuedLog) : issuedLog[i].label = "base" }

FirstBaseFailed ==
    /\ issuedLog # << >>
    /\ issuedLog[1].phase = "base"
    /\ _is_error(AwaitedResult(issuedLog[1]).res)

BaseOver == spc \in {"optional", "insights_retry", "report", "done"}

BaseRetriedOnce ==
    /\ Cardinality(BaseIssues) <= 2
    /\ (BaseOver /\ FirstBaseFailed) =>
        /\ Cardinality(BaseIssues) = 2
        /\ IssuedIn("base_retry", "base")

\* what the code does: the retry is made exactly for requests with boundary
BaseRetriedWithBoundaryOnly ==
    /\ Cardinality(BaseIssues) <= 2
    /\ (BaseOver /\ FirstBaseFailed) =>
        (IssuedIn("base_retry", "base") <=> sreq.withBoundarySvg)
    /\ (BaseOver /\ ~FirstBaseFailed) => ~IssuedIn("base_retry", "base")

\* a request without boundary: base failed once and the call failed
BaseNotRetriedScenario ==
    /\ spc = "done"
    /\ ~sreq.withBoundarySvg
    /\ FirstBaseFailed
    /\ Cardinality(BaseIssues) = 1
    /\ sresult.kind = "raise"


(***************************************************************************)
(* C26: insights, when not served from the cache and left by the           *)
(* scheduling loop with an error or a timeout, is issued again at most     *)
(* insights_attempts (2) times, insights_delay apart, stopping at the      *)
(* first answer, whether or not the optional budget is used up; the last   *)
(* attempt's result replaces the loop's; no other label is issued twice.   *)
(***************************************************************************)
InsightsRetries == { i \in 1..Len(issuedLog) : issuedLog[i].phase = "insights_retry" }

LoopIssues(l) == { i \in 1..Len(issuedLog) : issuedLog[i].phase = "loop" /\ issuedLog[i].label = l }

\* the outcome the scheduling loop left for insights was an error or a timeout
ScheduledInsightsFailed ==
    /\ "insights" \in PlanOptional
    /\ "insights" \in DOMAIN fetched
    /\ \A i \in LoopIssues("insights") : _is_error(AwaitedResult(issuedLog[i]).res)

RetriesOver == spc \in {"report", "done"}

InsightsRetriedAlone ==
    /\ Cardinality(InsightsRetries) <= insights_attempts
    /\ \A l \in OptionalNames : Cardinality(LoopIssues(l)) <= 1
    /\ \A i \in InsightsRetries :
        /\ issuedLog[i].label = "insights"
        /\ issuedLog[i].timeout = 0
        /\ "insights" \notin DOMAIN prepared_cache
        /\ ScheduledInsightsFailed
        /\ \A j \in InsightsRetries :
            j < i => /\ _is_error(issuedLog[j].answer)
                     /\ issuedLog[i].at = issuedLog[j].answerAt + insights_delay
    /\ (RetriesOver /\ ScheduledInsightsFailed) => InsightsRetries # {}
    /\ (RetriesOver /\ InsightsRetries # {}) =>
        /\ fetched["insights"] = LastIssued.answer
        /\ _is_error(LastIssued.answer) => Cardinality(InsightsRetries) = insights_attempts

\* the budget was used up, insights was recorded as a timeout without a call,
\* its first retry failed and its second retry, made 3 s later, answered
InsightsRetriedAloneWitness ==
    /\ spc = "done"
    /\ Cardinality(InsightsRetries) = 2
    /\ LoopIssues("insights") = {}
    /\ now > Deadline
    /\ fetched["insights"].kind = "ok"
    /\ fetched["predictions"] = TimeoutResult
    /\ sresult.kind = "return"


(***************************************************************************)
(* C27: an optional call issued before the shared deadline is allowed to   *)
(* finish: when the upstream's answer arrives after the deadline but       *)
(* before the call returns, the answer is what the call records for the    *)
(* label, not a timeout.                                                   *)
(***************************************************************************)
\* the loop calls whose answer came after the timeout they were awaited with
LateAnswers ==
    { i \in 1..Len(issuedLog) :
        /\ issuedLog[i].phase = "loop"
        /\ issuedLog[i].answerAt - issuedLog[i].at >= issuedLog[i].timeout }

LateAnswerAccepted ==
    spc = "done" =>
        \A i \in LateAnswers :
            (issuedLog[i].answerAt <= now /\ issuedLog[i].label # "insights") =>
                fetched[issuedLog[i].label] = issuedLog[i].answer

\* what wait_for does: the call is cancelled at the deadline and the label
\* holds a TimeoutError from then on
LateAnswerCancelled ==
    \A i \in LateAnswers :
        (issuedLog[i].label \in DOMAIN fetched /\ issuedLog[i].label # "insights") =>
            fetched[issuedLog[i].label] = TimeoutResult

\* predictions was issued with budget left and the upstream answered ok one
\* second after the deadline; the call returned later still, with predictions
\* recorded as a timeout
LateAnswerDroppedScenario ==
    /\ spc = "done"
    /\ sresult.kind = "return"
    /\ \E i \in LateAnswers :
        /\ issuedLog[i].label = "predictions"
        /\ issuedLog[i].answer.kind = "ok"
        /\ issuedLog[i].answerAt > Deadline
        /\ issuedLog[i].answerAt < now
    /\ fetched["predictions"] = TimeoutResult
    /\ "predictions_unavailable" \in Range(sresult.warnings)


(***************************************************************************)
(* C28: the time spent waiting for base, its retry included, is not taken  *)
(* from the optional budget: every optional call of the loop is awaited    *)
(* with optional_timeout_sec less the time the loop has spent since base   *)
(* settled, a label is given up without a call only when that much time    *)
(* has gone, and the loop never waits longer than optional_timeout_sec.    *)
(***************************************************************************)
\* the instant base settled: the latest hand-over of a base call, or the start
BaseEnd ==
    LET ends == { AwaitedResult(issuedLog[j]).at : j \in BaseIssues } \cup {start_t}
    IN  CHOOSE t \in ends : \A u \in ends : u <= t

LoopCalls == { i \in 1..Len(issuedLog) : issuedLog[i].phase = "loop" }

RECURSIVE WaitedOn(_)
WaitedOn(S) ==
    IF S = {} THEN 0
    ELSE LET i == CHOOSE j \in S : TRUE
         IN  (AwaitedResult(issuedLog[i]).at - issuedLog[i].at) + WaitedOn(S \ {i})

CriticalTimeNotCharged ==
    /\ \A i \in LoopCalls :
        issuedLog[i].timeout = OptionalTimeoutSec - (issuedLog[i].at - BaseEnd)
    /\ \A l \in SkippedLabels : now - BaseEnd >= OptionalTimeoutSec
    /\ WaitedOn(LoopCalls) <= OptionalTimeoutSec

\* what the code does: the budget runs from start_t, taken before base is awaited
CriticalTimeCharged ==
    /\ \A i \in LoopCalls :
        issuedLog[i].timeout = OptionalTimeoutSec - (issuedLog[i].at - start_t)
    /\ WaitedOn(LoopCalls) <= OptionalTimeoutSec - (BaseEnd - start_t)
       \/ LoopCalls = {}

\* base timed out, its retry succeeded, and every optional label of the plan
\* was given up without a call although the loop had waited for none
SlowBaseStarvesOptionalScenario ==
    /\ spc = "done"
    /\ sresult.kind = "return"
    /\ baseCalls = 2
    /\ LoopCalls = {}
    /\ PlanOptional # {}
    /\ \A l \in PlanOptional \ {"insights"} : fetched[l] = TimeoutResult
    /\ "predictions_unavailable" \in Range(sresult.warnings)

\* base answered ok after one second and insights was awaited with one second less
SlowBaseShortensOptionalScenario ==
    /\ baseCalls = 1
    /\ fetched["base"].kind = "ok"
    /\ BaseEnd = start_t + 1
    /\ \E i \in LoopCalls :
        /\ issuedLog[i].label = "insights"
        /\ issuedLog[i].at = BaseEnd
        /\ issuedLog[i].timeout = OptionalTimeoutSec - 1


(***************************************************************************)
(* C29: a stream that was not answered from the cache emits the 'base'     *)
(* record first, then exactly one record for each applicable optional      *)
(* label, in the order the sub-queries finished, a failed sub-query as an  *)
(* ok=false record.                                                        *)
(***************************************************************************)
StreamedOptional == ApplicableLabels(sreq) \ {"base"}

RecordsOf(l) == { i \in 1..Len(emitted) : emitted[i].type = l }

BaseThenCompletionOrder ==
    /\ \A i \in 1..Len(emitted) : (emitted[i].type = "base") <=> (i = 1)
    /\ \A l \in StreamedOptional : Cardinality(RecordsOf(l)) <= 1
    /\ OptionalEmitted = SubSeq(completed, 1, Len(OptionalEmitted))
    /\ \A i \in 1..Len(emitted) : emitted[i].type \in StreamedOptional \cup {"base", "done"}

OneRecordPerOptionalLabel ==
    (StreamEnded /\ stpc # "json") =>
        /\ BaseThenCompletionOrder
        /\ emitted # << >>
        /\ \A l \in StreamedOptional : Cardinality(RecordsOf(l)) = 1

\* with a successful base the records are as claimed
OneRecordPerOptionalLabelAfterBase ==
    /\ BaseThenCompletionOrder
    /\ stpc = "closed" =>
        /\ \A l \in StreamedOptional : Cardinality(RecordsOf(l)) = 1
        /\ OptionalEmitted = completed
    /\ stpc = "aborted" => emitted = << >>

\* predictions finished first and failed, insights finished later: the stream
\* closed with base, predictions (ok=false), ..., in that order
CompletionOrderScenario ==
    /\ stpc = "closed"
    /\ Len(emitted) >= 4
    /\ emitted[1].type = "base"
    /\ emitted[2] = [type |-> "predictions", ok |-> FALSE]
    /\ emitted[3].type = "risk2"
    /\ \E i \in 4..Len(emitted) : emitted[i] = [type |-> "insights", ok |-> TRUE]

\* base failed: the stream ended without a record for any optional label
NoOptionalRecordScenario ==
    /\ stpc = "aborted"
    /\ StreamedOptional # {}
    /\ \A l \in StreamedOptional : RecordsOf(l) = {}


(***************************************************************************)
(* C30: when the call fails because base failed, the error carries a       *)
(* diagnostics entry for base and for every applicable optional label      *)
(* (insights, predictions, tasks, tasks_sprayings, risk1, risk2), each     *)
(* with that sub-query's outcome.                                          *)
(***************************************************************************)
FailedOnCritical == spc = "done" /\ sresult.kind = "raise" /\ sresult.reason = "combined_fields_failed"

DiagnosticsCoverPlan ==
    FailedOnCritical =>
        /\ DOMAIN sresult.diagnostics = ApplicableLabels(sreq)
        /\ \A l \in DOMAIN sresult.diagnostics :
            sresult.diagnostics[l] = _summarize_response(prepared_cache, fetched, l)

\* what the code attaches: base, insights, predictions and, with includeTasks, tasks
DiagnosticsOfFourLabels ==
    FailedOnCritical =>
        /\ DOMAIN sresult.diagnostics =
            {"base", "insights", "predictions"} \cup (IF sreq.includeTasks THEN {"tasks"} ELSE {})
        /\ \A l \in DOMAIN sresult.diagnostics :
            sresult.diagnostics[l] = _summarize_response(prepared_cache, fetched, l)
        /\ sresult.diagnostics["base"].ok = FALSE

\* base failed; risk1, risk2 and tasks_sprayings were fetched and settled, and
\* the error says nothing about them
DiagnosticsMissLabelsScenario ==
    /\ FailedOnCritical
    /\ {"risk1", "risk2", "tasks_sprayings"} \subseteq DOMAIN fetched
    /\ fetched["risk1"].kind = "error"
    /\ fetched["risk2"].kind = "ok"
    /\ {"risk1", "risk2", "tasks_sprayings"} \cap DOMAIN sresult.diagnostics = {}


(***************************************************************************)
(* C31: the chunk results are merged in the order the chunks were cut from *)
(* the request, so the fields of the merged output follow the order of the *)
(* requested farms whichever chunks needed the retry round.                *)
(***************************************************************************)
ChunkedReturned == cpc = "done" /\ cresult.kind = "return"

InFarmOrder(fields) ==
    \A i \in 1..Len(fields) : \A j \in 1..Len(fields) :
        i < j => fields[i].farmV2 < fields[j].farmV2

MergedInSubmissionOrder == ChunkedReturned => InFarmOrder(cresult.fields)

\* what the code does: first-pass successes first, retry successes appended
\* (successes.extend(retry_successes)); submission order only without a retry
MergedInPassOrder ==
    ChunkedReturned =>
        /\ cresult.fields = _merge_fields_v2_by_uuid([i \in 1..Len(successes) |-> successes[i].fields])
        /\ retried_failed_farms = << >> => InFarmOrder(cresult.fields)

\* chunk <<1>> succeeded only in the retry round, chunk <<2>> in the first
\* pass: the merged output lists the field of farm 2 before that of farm 1
MergedOutOfOrderScenario ==
    /\ ChunkedReturned
    /\ creq.farm_uuids = <<1, 2>>
    /\ creq.chunk_size = 1
    /\ retried_failed_farms = <<1>>
    /\ cresult.fields = <<FarmField(2), FarmField(1)>>
    /\ cresult.ok


(***************************************************************************)
(* Both merge paths on a field list holding entities without a uuid key    *)
(***************************************************************************)
MaxDropLen == 3

InitOthersIdle ==
    /\ InitMergeIdle
    /\ InitSingleIdle
    /\ InitChunkIdle
    /\ InitCacheIdle
    /\ InitStreamIdle
    /\ InitTokenIdle
    /\ InitRouteIdle
    /\ InitTraceIdle
    /\ InitSchedIdle
    /\ InitOrderIdle

\* a field entity whose uuid key is missing
NoUuidField == [name |-> "N", farmV2 |-> 2]

DropSamples == { Field1, Field2, [uuid |-> "u1", name |-> "C", farmV2 |-> 2], NoUuidField }

\* d['uuid'] raises KeyError
LacksUuidKey(d) == "uuid" \notin DOMAIN d

HasUuidKey(d) == ~LacksUuidKey(d)

WithoutUuidless(fields) == SelectSeq(fields, HasUuidKey)

\* the sources merge_fields_data walks: those that are truthy and hold a non-empty fieldsV2
WalkedSources(insights_data, predictions_data, tasks_data) ==
    SelectSeq(<<ListOrEmpty(insights_data), ListOrEmpty(predictions_data),
                ListOrEmpty(tasks_data)>>, LAMBDA l : l # << >>)

\* merge_fields_data as its caller sees it: field['uuid'] and field_update['uuid'] are
\* plain subscripts, so an entity without the key raises KeyError out of the call
MergeFieldsDataOutcome(base_data, insights_data, predictions_data, tasks_data) ==
    LET walked == Flatten(WalkedSources(insights_data, predictions_data, tasks_data))
    IN  IF \E i \in 1..Len(base_data) : LacksUuidKey(base_data[i])
        THEN [kind |-> "raise", error |-> "KeyError", at |-> "base"]
        ELSE IF \E i \in 1..Len(walked) : LacksUuidKey(walked[i])
        THEN [kind |-> "raise", error |-> "KeyError", at |-> "update"]
        ELSE [kind |-> "return",
              fields |-> merge_fields_data(base_data, insights_data, predictions_data, tasks_data)]

\* the list as the base result, or as the insights result over the base <<Field1, Field2>>
SingleMergeOf(fields, at) ==
    IF at = "base" THEN MergeFieldsDataOutcome(fields, NoneValue, NoneValue, NoneValue)
    ELSE MergeFieldsDataOutcome(<<Field1, Field2>>, ListValue(fields), NoneValue, NoneValue)

DropRequest ==
    [farm_uuids |-> <<1, 2>>, chunk_size |-> 1, per_chunk_attempts |-> 1,
     requireComplete |-> FALSE, withBoundarySvg |-> FALSE, includeSubResponses |-> FALSE]

\* the list as the fields of the one successful chunk of a chunked request
ChunkedMergeOf(fields) ==
    ChunkedOutcome(DropRequest,
                   <<[ok |-> TRUE, status |-> 200, fields |-> fields, warnings |-> << >>]>>,
                   << >>, << >>)

InitDrop ==
    /\ dropRun \in { [pc |-> "start", fields |-> fl, at |-> a,
                      single |-> EmptyDict, singleWithout |-> EmptyDict,
                      chunked |-> EmptyDict, chunkedWithout |-> EmptyDict] :
                        fl \in UNION { [1..k -> DropSamples] : k \in 0..MaxDropLen },
                        a \in {"base", "insights"} }
    /\ endpoint = EmptyDict /\ flight = EmptyDict /\ job = EmptyDict
    /\ InitOthersIdle

\* merge_fields_data on the list, and on the list without the uuid-less entities
RunSingleMerge ==
    /\ dropRun.pc = "start"
    /\ dropRun' = [dropRun EXCEPT !.pc = "single",
                      !.single = SingleMergeOf(dropRun.fields, dropRun.at),
                      !.singleWithout = SingleMergeOf(WithoutUuidless(dropRun.fields), dropRun.at)]
    /\ UNCHANGED <<endpoint, flight, job, notExtra>>

\* the chunked merge and its diagnostics on the same two lists
RunChunkedMerge ==
    /\ dropRun.pc = "single"
    /\ dropRun' = [dropRun EXCEPT !.pc = "done",
                      !.chunked = ChunkedMergeOf(dropRun.fields),
                      !.chunkedWithout = ChunkedMergeOf(WithoutUuidless(dropRun.fields))]
    /\ UNCHANGED <<endpoint, flight, job, notExtra>>

NextDrop == RunSingleMerge \/ RunChunkedMerge

SpecDrop == InitDrop /\ [][NextDrop]_vars

(***************************************************************************)
(* C32: in both merge paths an entity without its uuid key is dropped      *)
(* without failing the call and counted separately in the diagnostics, and *)
(* the other entities merge as if it were absent.                          *)
(***************************************************************************)
DropDone == "pc" \in DOMAIN dropRun /\ dropRun.pc = "done"

HoldsUuidless == \E i \in 1..Len(dropRun.fields) : LacksUuidKey(dropRun.fields[i])

UuidlessDroppedAndCounted ==
    DropDone =>
        /\ dropRun.single = dropRun.singleWithout
        /\ dropRun.single.kind = "return"
        /\ dropRun.chunked.fields = dropRun.chunkedWithout.fields
        /\ HoldsUuidless => dropRun.chunked.diagnostics # dropRun.chunkedWithout.diagnostics

\* what the code does: the chunk merge drops the entity and reports nothing about
\* it; merge_fields_data raises KeyError exactly when such an entity is walked
UuidlessDroppedSilentlyOrRaises ==
    DropDone =>
        /\ dropRun.chunked = dropRun.chunkedWithout
        /\ dropRun.singleWithout.kind = "return"
        /\ dropRun.single.kind = "raise" <=> HoldsUuidless
        /\ ~HoldsUuidless => dropRun.single = dropRun.singleWithout

\* one uuid-less entity next to Field1: the single merge raises KeyError, the
\* chunked response is the one of <<Field1>> alone, diagnostics included
UuidlessScenario ==
    /\ DropDone
    /\ dropRun.fields = <<Field1, NoUuidField>>
    /\ dropRun.at = "base"
    /\ dropRun.single.kind = "raise"
    /\ dropRun.chunked.fields = <<Field1>>
    /\ dropRun.chunked.diagnostics = dropRun.chunkedWithout.diagnostics


(***************************************************************************)
(* C33: after any sequence of upstream calls and cache writes, every       *)
(* envelope the response cache holds is a successful one: an upstream      *)
(* answer with status 400 or above is never stored.                        *)
(***************************************************************************)
CacheHoldsOnlySuccess == \A k \in DOMAIN by_operation : by_operation[k].kind = "ok"

\* what the code does: save_response runs before the status check of call_graphql,
\* so every HTTP answer is stored; only a call without an answer stores nothing
CacheHoldsEveryAnswer == \A k \in DOMAIN by_operation : by_operation[k].kind \in {"ok", "error"}

\* the base call was answered with status >= 400 and its envelope is in the cache
FailedEnvelopeStoredScenario ==
    /\ _get_cache_key("CombinedDataBase", "base") \in DOMAIN by_operation
    /\ get_by_operation(by_operation, "CombinedDataBase", "base") = ErrorResult
    /\ issued = <<"base">>


(***************************************************************************)
(* C34: in streaming mode each applicable sub-query label is issued        *)
(* upstream at most once per request: the number of call_graphql           *)
(* invocations of a streamed request equals the number of applicable       *)
(* labels.                                                                 *)
(***************************************************************************)
RECURSIVE SumCalls(_, _)
SumCalls(calls, labels) ==
    IF labels = {} THEN 0
    ELSE LET l == CHOOSE x \in labels : TRUE
         IN  calls[l] + SumCalls(calls, labels \ {l})

Streamed == stpc \in {"await_base", "as_completed", "aborted", "closed"}

StreamCallsOncePerLabel ==
    Streamed =>
        /\ \A l \in DOMAIN streamCalls : streamCalls[l] <= 1
        /\ SumCalls(streamCalls, DOMAIN streamCalls) = Cardinality(ApplicableLabels(sreq))

\* what the code does: tasks_map calls every applicable label, and after an ok
\* base other_tasks calls every applicable optional label a second time
StreamCallsOptionalTwice ==
    Streamed =>
        /\ DOMAIN streamCalls = ApplicableLabels(sreq)
        /\ streamCalls["base"] = 1
        /\ \A l \in ApplicableLabels(sreq) \ {"base"} :
                streamCalls[l] = IF stpc \in {"as_completed", "closed"} THEN 2 ELSE 1

\* a stream without tasks ran to 'done': nine invocations for five labels
StreamCallsTwiceScenario ==
    /\ stpc = "closed" /\ ~sreq.includeTasks
    /\ Cardinality(ApplicableLabels(sreq)) = 5
    /\ SumCalls(streamCalls, DOMAIN streamCalls) = 9
    /\ streamCalls["insights"] = 2


(***************************************************************************)
(* Cache-first endpoints biomass_ndvi and field_data_layers                *)
(***************************************************************************)
MaxEndpointRequests == 3
MaxEndpointPayloads == 2

\* what the upstream does with one call of call_graphql: an answer with a status
\* below 400, an answer with a status of 400 or above, or no answer at all
EndpointAnswers == {"ok", "http_error", "transport_error"}

\* the envelope `out` call_graphql builds from an HTTP answer
EnvelopeOf(answer) ==
    IF answer = "ok" THEN [ok |-> TRUE, status |-> 200]
    ELSE [ok |-> FALSE, status |-> 500]

\* one request to a cache-first endpoint: get_by_operation first and, on a hit, the
\* stored envelope as a normal response; otherwise call_graphql, which saves the
\* envelope of any HTTP answer before it raises on status >= 400, then source = "api"
\* and the endpoint's own save_response.  setsSource: biomass_ndvi assigns
\* source = "cache" on the stored dict, field_data_layers setdefaults it on a copy
CacheFirst(e, operation, payload, answer, setsSource) ==
    LET cached_response == get_by_operation(e.store, operation, payload)
        hit == cached_response # NoneValue
        cached == IF setsSource \/ "source" \notin DOMAIN cached_response
                  THEN DictUpdate(cached_response, [source |-> "cache"])
                  ELSE cached_response
        out == DictUpdate(EnvelopeOf(answer), [source |-> "api"])
        request == [operation |-> operation, payload |-> payload]
    IN  IF hit
        THEN [store |-> IF setsSource THEN save_response(e.store, operation, payload, cached)
                        ELSE e.store,
              calls |-> e.calls,
              log |-> Append(e.log, DictUpdate(request,
                        [called |-> FALSE, kind |-> "return", http |-> 200, body |-> cached]))]
        ELSE IF answer = "transport_error"
        THEN [store |-> e.store,
              calls |-> Append(e.calls, request),
              log |-> Append(e.log, DictUpdate(request,
                        [called |-> TRUE, kind |-> "raise", http |-> 502,
                         body |-> [ok |-> FALSE, status |-> 0]]))]
        ELSE IF answer = "http_error"
        THEN [store |-> save_response(e.store, operation, payload, EnvelopeOf(answer)),
              calls |-> Append(e.calls, request),
              log |-> Append(e.log, DictUpdate(request,
                        [called |-> TRUE, kind |-> "raise", http |-> EnvelopeOf(answer).status,
                         body |-> EnvelopeOf(answer)]))]
        ELSE [store |-> save_response(e.store, operation, payload, out),
              calls |-> Append(e.calls, request),
              log |-> Append(e.log, DictUpdate(request,
                        [called |-> TRUE, kind |-> "return", http |-> 200, body |-> out]))]

InitEndpoint ==
    /\ endpoint = [store |-> EmptyDict, calls |-> << >>, log |-> << >>]
    /\ dropRun = EmptyDict /\ flight = EmptyDict /\ job = EmptyDict
    /\ InitOthersIdle

biomass_ndvi ==
    /\ Len(endpoint.log) < MaxEndpointRequests
    /\ \E payload \in 1..MaxEndpointPayloads, answer \in EndpointAnswers :
        endpoint' = CacheFirst(endpoint, "Biomass", payload, answer, TRUE)
    /\ UNCHANGED <<dropRun, flight, job, notExtra>>

field_data_layers ==
    /\ Len(endpoint.log) < MaxEndpointRequests
    /\ \E payload \in 1..MaxEndpointPayloads, answer \in EndpointAnswers :
        endpoint' = CacheFirst(endpoint, "FieldDataLayerImages", payload, answer, FALSE)
    /\ UNCHANGED <<dropRun, flight, job, notExtra>>

NextEndpoint == biomass_ndvi \/ field_data_layers

SpecEndpoint == InitEndpoint /\ [][NextEndpoint]_vars

(***************************************************************************)
(* C35: for biomass_ndvi and field_data_layers, a request whose upstream   *)
(* call failed with status 400 or above never makes a later identical      *)
(* request be answered from cache: the next identical request issues a new *)
(* upstream call.                                                          *)
(***************************************************************************)
EndpointLog == IF "log" \in DOMAIN endpoint THEN endpoint.log ELSE << >>

SameRequest(a, b) == a.operation = b.operation /\ a.payload = b.payload

\* j is the next request after i that is identical to i
NextIdentical(i, j) ==
    /\ i < j
    /\ SameRequest(EndpointLog[i], EndpointLog[j])
    /\ \A k \in (i + 1)..(j - 1) : ~SameRequest(EndpointLog[i], EndpointLog[k])

FailedUpstream(i) ==
    EndpointLog[i].called /\ EndpointLog[i].kind = "raise" /\ EndpointLog[i].body.status >= 400

FailureNotServedFromCache ==
    \A i \in 1..Len(EndpointLog) : \A j \in 1..Len(EndpointLog) :
        (FailedUpstream(i) /\ NextIdentical(i, j)) =>
            /\ EndpointLog[j].called
            /\ ~(EndpointLog[j].kind = "return" /\ ~EndpointLog[j].body.ok)

\* what the code does: the failed envelope was saved by call_graphql, so the next
\* identical request is a cache hit answered 200 with that envelope and no call;
\* only a call that got no answer leaves the next identical request to call again
FailureServedFromCache ==
    \A i \in 1..Len(EndpointLog) : \A j \in 1..Len(EndpointLog) :
        /\ (FailedUpstream(i) /\ NextIdentical(i, j)) =>
                /\ ~EndpointLog[j].called
                /\ EndpointLog[j].kind = "return" /\ EndpointLog[j].http = 200
                /\ ~EndpointLog[j].body.ok
                /\ EndpointLog[j].body.status = EndpointLog[i].body.status
                /\ EndpointLog[j].body.source = "cache"
        /\ (EndpointLog[i].called /\ EndpointLog[i].http = 502 /\ NextIdentical(i, j)) =>
                EndpointLog[j].called

\* biomass_ndvi failed upstream, then answered the same request twice from cache
FailureServedFromCacheScenario ==
    /\ Len(EndpointLog) = 3
    /\ \A i \in 1..3 : EndpointLog[i].operation = "Biomass" /\ EndpointLog[i].payload = 1
    /\ FailedUpstream(1)
    /\ ~EndpointLog[2].called /\ ~EndpointLog[3].called
    /\ EndpointLog[3].body = [ok |-> FALSE, status |-> 500, source |-> "cache"]
    /\ Len(endpoint.calls) = 1


(***************************************************************************)
(* The passes of the chunked controller with the runs of the single        *)
(* pipeline as calls that start, are awaited and return, and the backoff   *)
(* sleep between the attempts of a chunk                                   *)
(***************************************************************************)
\* the run the loop of _run_combined_chunk_pass is at
CurrentRun ==
    [pass |-> pass, chunk |-> chunkIdx, attempt |-> attempt, farms |-> farm_chunks[chunkIdx]]

\* a slip that starts the run as a task and goes on without awaiting it
FireAndForget(running, run) == running

\* resp = await _combined_fields_single(subreq): the loop goes on when the run returned
AwaitRun(running, run) == running \ {run}

InitFlight ==
    /\ cpc = "start"
    /\ creq \in { [farm_uuids |-> [i \in 1..n |-> i], chunk_size |-> cs,
                   per_chunk_attempts |-> pa, requireComplete |-> fl.requireComplete,
                   withBoundarySvg |-> fl.withBoundarySvg,
                   includeSubResponses |-> fl.includeSubResponses] :
                    n \in 1..MaxFarms, cs \in 1..MaxChunkSize, pa \in 1..MaxChunkAttempts,
                    fl \in RoutedFlags }
    /\ pass = 0 /\ farm_chunks = << >> /\ chunkIdx = 0 /\ attempt = 0
    /\ last_error = NoError /\ successes = << >> /\ failures = << >>
    /\ retried_failed_farms = << >> /\ cresult = EmptyDict
    /\ flight = [at |-> "call", running |-> {}, started |-> << >>]
    /\ dropRun = EmptyDict /\ endpoint = EmptyDict /\ job = EmptyDict
    /\ InitSingleIdle
    /\ InitMergeIdle
    /\ InitCacheIdle
    /\ InitStreamIdle
    /\ InitTokenIdle
    /\ InitRouteIdle
    /\ InitTraceIdle
    /\ InitSchedIdle
    /\ InitOrderIdle

flightFrame ==
    <<creq, pass, farm_chunks, retried_failed_farms, cresult, mergeVars, singleVars,
      cacheVars, streamVars, tokenVars, routeVars, traceVars, schedVars, orderVars,
      dropRun, endpoint, job>>

\* the loop calls _combined_fields_single for the current chunk and attempt
BeginAttempt ==
    /\ cpc = "pass"
    /\ flight.at = "call"
    /\ flight' = [at |-> "awaiting",
                  running |-> flight.running \cup {CurrentRun},
                  started |-> Append(flight.started, CurrentRun)]
    /\ UNCHANGED <<cpc, chunkIdx, attempt, last_error, successes, failures, flightFrame>>

\* the awaited run returns or raises; a failed attempt that is not the last of its
\* chunk is followed by asyncio.sleep(min(5.0, backoff_base_sec * attempt))
EndAttempt ==
    /\ cpc = "pass"
    /\ flight.at = "awaiting"
    /\ \E resp \in PassRuns(farm_chunks[chunkIdx]) :
        /\ RunChunkAttempt(resp)
        /\ flight' = [flight EXCEPT
                        !.running = AwaitRun(flight.running, CurrentRun),
                        !.at = IF ~IsChunkSuccess(resp)
                                  /\ HasNextAttempt(attempt, creq.per_chunk_attempts)
                               THEN "sleeping" ELSE "call"]
    /\ UNCHANGED flightFrame

\* the backoff sleep elapses
Wake ==
    /\ cpc = "pass"
    /\ flight.at = "sleeping"
    /\ flight' = [flight EXCEPT !.at = "call"]
    /\ UNCHANGED <<cpc, chunkIdx, attempt, last_error, successes, failures, flightFrame>>

NextFlight == StartChunked \/ BeginAttempt \/ EndAttempt \/ Wake \/ RetryRound \/ FinishChunked

SpecFlight == InitFlight /\ [][NextFlight]_vars

(***************************************************************************)
(* C36: at most one run of the single pipeline is in flight at any time;   *)
(* chunks are processed one after another in list order, and the next      *)
(* attempt or chunk starts only after the previous attempt has returned    *)
(* and any backoff sleep has elapsed.                                      *)
(***************************************************************************)
InFlight == IF "running" \in DOMAIN flight THEN flight.running ELSE {}

Started == IF "started" \in DOMAIN flight THEN flight.started ELSE << >>

\* run b is what the loop does next after run a
FollowsInListOrder(a, b) ==
    \/ a.pass = b.pass /\ a.chunk = b.chunk /\ b.attempt = a.attempt + 1
    \/ a.pass = b.pass /\ b.chunk = a.chunk + 1 /\ b.attempt = 1
    \/ a.pass = 1 /\ b.pass = 2 /\ b.chunk = 1 /\ b.attempt = 1

OneRunInFlight ==
    /\ Cardinality(InFlight) <= 1
    /\ \A r \in InFlight : r = Started[Len(Started)] /\ flight.at = "awaiting"
    /\ (flight # EmptyDict /\ flight.at \in {"sleeping", "call"}) => InFlight = {}
    /\ \A i \in 1..(Len(Started) - 1) : FollowsInListOrder(Started[i], Started[i + 1])
    /\ Len(Started) > 0 =>
            (Started[1].pass = 1 /\ Started[1].chunk = 1 /\ Started[1].attempt = 1)

\* the second attempt of the first chunk is in flight after the first one
\* returned with a failure and the backoff sleep elapsed
OneRunInFlightWitness ==
    /\ Len(Started) = 2
    /\ Started[2].chunk = 1 /\ Started[2].attempt = 2
    /\ InFlight = {Started[2]}
    /\ last_error # NoError


\* the step of EndAttempt by what it does to the position of the loop: in SpecFlight
\* a step that leaves "awaiting" is an EndAttempt step, possible whenever a run is awaited
RunReturns ==
    /\ cpc = "pass"
    /\ flight.at = "awaiting"
    /\ flight' \in { [flight EXCEPT !.at = a, !.running = AwaitRun(flight.running, CurrentRun)] :
                        a \in {"call", "sleeping"} }

\* the step of FinishChunked by its guard and what it does to cpc
ControllerFinishes ==
    /\ cpc = "pass_end"
    /\ pass = 2 \/ failures = << >>
    /\ cpc' = "done"

\* every awaited run returns or raises (each upstream call has its timeout), every
\* backoff sleep elapses and the controller goes on while it has a step to take
SpecFlightFair ==
    /\ SpecFlight
    /\ WF_vars(StartChunked \/ BeginAttempt \/ Wake \/ RetryRound)
    /\ WF_flight(RunReturns)
    /\ WF_cpc(ControllerFinishes)

(***************************************************************************)
(* C37: with perChunkAttempts >= 1 and chunk size >= 1 a chunked call      *)
(* terminates, with a result or an error, after at most                    *)
(* 2 * perChunkAttempts runs of the single pipeline per chunk, and after   *)
(* each pass every chunk of that pass is in exactly one of the pass's      *)
(* successes or failures.                                                  *)
(***************************************************************************)
\* the started runs of one chunk of one pass
RunsOf(p, c) == { i \in 1..Len(Started) : Started[i].pass = p /\ Started[i].chunk = c }

\* the started runs that carry farm u, over both passes
RunsWithFarm(u) == { i \in 1..Len(Started) : u \in Range(Started[i].farms) }

\* the chunks of the first pass that did not fail: none of their farms was retried
FirstPassSuccesses ==
    LET initial_chunks == _chunk_list(creq.farm_uuids, creq.chunk_size)
    IN  Cardinality({ c \in 1..Len(initial_chunks) :
                        Range(initial_chunks[c]) \cap Range(retried_failed_farms) = {} })

\* the successes of the pass that has just ended
PassSuccesses == IF pass = 2 THEN Len(successes) - FirstPassSuccesses ELSE Len(successes)

RunsBounded ==
    /\ \A p \in 1..2 : \A c \in 1..MaxFarms :
            Cardinality(RunsOf(p, c)) <= creq.per_chunk_attempts
    /\ \A u \in 1..MaxFarms : Cardinality(RunsWithFarm(u)) <= 2 * creq.per_chunk_attempts
    /\ Len(Started) <= 2 * creq.per_chunk_attempts * Len(creq.farm_uuids)

EveryChunkSettled ==
    cpc \in {"pass_end", "done"} =>
        /\ \A c \in 1..Len(farm_chunks) : RunsOf(pass, c) # {}
        /\ \A i \in 1..Len(failures) : \E c \in 1..Len(farm_chunks) :
                failures[i].farmUuids = farm_chunks[c]
        /\ \A i \in 1..Len(failures) : \A j \in 1..Len(failures) :
                i # j => failures[i].farmUuids # failures[j].farmUuids
        /\ PassSuccesses + Len(failures) = Len(farm_chunks)

ChunkedTerminates ==
    /\ [](flight # EmptyDict => RunsBounded /\ EveryChunkSettled)
    /\ <>(cpc = "done" /\ cresult.kind \in {"return", "raise"})

\* three farms in chunks of one with two attempts each, every run failing: twelve
\* runs, four with each farm, and the call ends with the error of the failed chunks
ChunkedTerminatesWitness ==
    /\ cpc = "done" /\ cresult.kind = "raise"
    /\ Len(creq.farm_uuids) = 3 /\ creq.chunk_size = 1 /\ creq.per_chunk_attempts = 2
    /\ Len(Started) = 12
    /\ \A u \in 1..3 : Cardinality(RunsWithFarm(u)) = 4
    /\ Len(failures) = 3 /\ successes = << >>


(***************************************************************************)
(* The snapshot job jobs_hfr_snapshot: run record, chunk fetch with        *)
(* retries, persistence                                                    *)
(***************************************************************************)
MaxJobChunks == 2
MaxJobAttempts == 2

\* retryable_status = exc.status_code in (429, 500, 502, 503, 504)
RetryableStatuses == {429, 500, 502, 503, 504}

\* what one call of combined_field_data_tasks for a chunk ends in: fields for every
\* farm, fields that miss a farm, ok = false with a status, or another exception
FetchOutcomes ==
    { [kind |-> "ok"], [kind |-> "missing_farms"], [kind |-> "exception"] }
        \cup { [kind |-> "http", status |-> s] : s \in {401, 503} }

\* the HTTPException the attempt raises, EmptyDict when it raises none
RaisedHttp(outcome, require_complete_chunk) ==
    IF outcome.kind = "http" THEN [status |-> outcome.status]
    ELSE IF outcome.kind = "missing_farms" /\ require_complete_chunk THEN [status |-> 502]
    ELSE EmptyDict

\* the attempt reaches `break`
FetchSucceeds(outcome, require_complete_chunk) ==
    outcome.kind = "ok" \/ (outcome.kind = "missing_farms" /\ ~require_complete_chunk)

\* `raise` in the except clauses of the attempt loop
FetchGivesUp(outcome, require_complete_chunk, n, chunk_attempts) ==
    /\ ~FetchSucceeds(outcome, require_complete_chunk)
    /\ \/ n >= chunk_attempts
       \/ /\ RaisedHttp(outcome, require_complete_chunk) # EmptyDict
          /\ RaisedHttp(outcome, require_complete_chunk).status \notin RetryableStatuses

\* a slip that leaves the run record as it is when the job fails
LeftOpen(ops, should_persist, status) == ops

\* if should_persist: hfr_snapshot_store.finish_run(run_id, status=...)
ClosedBy(ops, should_persist, status) ==
    IF should_persist THEN Append(ops, [op |-> "finish_run", status |-> status]) ELSE ops

\* the except clauses of the job: finish_run(status="failed") and the error goes out
JobFailed(j, step, error) ==
    [j EXCEPT !.pc = "done",
              !.ops = ClosedBy(j.ops, ~j.dryRun, "failed"),
              !.failedAt = step,
              !.result = [kind |-> "raise", status |-> error]]

InitJob ==
    /\ job \in { [pc |-> "start", dryRun |-> d, require_complete_chunk |-> rc,
                  chunk_attempts |-> a, chunks |-> 0, idx |-> 0, attempt |-> 0,
                  fetched |-> {}, ops |-> << >>, failedAt |-> "none", result |-> EmptyDict] :
                    d \in BOOLEAN, rc \in BOOLEAN, a \in 1..MaxJobAttempts }
    /\ dropRun = EmptyDict /\ endpoint = EmptyDict /\ flight = EmptyDict
    /\ InitOthersIdle

\* ensure_schema and start_run, only when the job persists
StartRun ==
    /\ job.pc = "start"
    /\ \E schema_ok \in BOOLEAN :
        job' = IF job.dryRun THEN [job EXCEPT !.pc = "prepare"]
               ELSE IF ~schema_ok
               THEN [job EXCEPT !.pc = "done", !.failedAt = "schema",
                                !.result = [kind |-> "raise", status |-> 500]]
               ELSE [job EXCEPT !.pc = "prepare",
                                !.ops = Append(@, [op |-> "start_run", status |-> "running"])]
    /\ UNCHANGED <<dropRun, endpoint, flight, notExtra>>

\* credentials, login, token, farms overview, candidate scan and _chunk_list
PrepareChunks ==
    /\ job.pc = "prepare"
    /\ \E outcome \in {"ok", "http", "exception"}, n \in 0..MaxJobChunks :
        job' = IF outcome = "http" THEN JobFailed(job, "prepare", 502)
               ELSE IF outcome = "exception" THEN JobFailed(job, "prepare", 500)
               ELSE IF n = 0 THEN [job EXCEPT !.pc = "finish"]
               ELSE [job EXCEPT !.pc = "fetch", !.chunks = n, !.idx = 1, !.attempt = 1]
    /\ UNCHANGED <<dropRun, endpoint, flight, notExtra>>

\* one attempt of the fetch of the current chunk
FetchChunkAttempt ==
    /\ job.pc = "fetch"
    /\ \E outcome \in FetchOutcomes :
        job' = IF FetchSucceeds(outcome, job.require_complete_chunk)
               THEN [job EXCEPT !.fetched = @ \cup {job.idx},
                                !.idx = @ + 1, !.attempt = 1,
                                !.pc = IF job.idx = job.chunks THEN "persist" ELSE "fetch"]
               ELSE IF FetchGivesUp(outcome, job.require_complete_chunk, job.attempt,
                                    job.chunk_attempts)
               THEN JobFailed(job, "fetch",
                        IF RaisedHttp(outcome, job.require_complete_chunk) # EmptyDict
                        THEN RaisedHttp(outcome, job.require_complete_chunk).status ELSE 500)
               ELSE [job EXCEPT !.attempt = @ + 1]
    /\ UNCHANGED <<dropRun, endpoint, flight, notExtra>>

\* suffix filter, extraction and, unless dry run, upsert_fields, upsert_tasks and
\* prune_snapshot_date in this order; a store operation that raises ends the job
PersistRows ==
    /\ job.pc = "persist"
    /\ \E done \in 0..3 :
        LET store_ops == <<[op |-> "upsert_fields", status |-> "ok"],
                           [op |-> "upsert_tasks", status |-> "ok"],
                           [op |-> "prune_snapshot_date", status |-> "ok"]>>
            written == [job EXCEPT !.ops = @ \o SubSeq(store_ops, 1, done)]
        IN  job' = IF job.dryRun THEN [job EXCEPT !.pc = "finish"]
                   ELSE IF done < 3 THEN JobFailed(written, "persist", 500)
                   ELSE [written EXCEPT !.pc = "finish"]
    /\ UNCHANGED <<dropRun, endpoint, flight, notExtra>>

\* finish_run(status="success") and the summary
FinishRun ==
    /\ job.pc = "finish"
    /\ job' = [job EXCEPT !.pc = "done",
                          !.ops = ClosedBy(@, ~job.dryRun, "success"),
                          !.result = [kind |-> "return", status |-> 200]]
    /\ UNCHANGED <<dropRun, endpoint, flight, notExtra>>

NextJob == StartRun \/ PrepareChunks \/ FetchChunkAttempt \/ PersistRows \/ FinishRun

SpecJob == InitJob /\ [][NextJob]_vars

(***************************************************************************)
(* C38: in a snapshot job that is not a dry run, rows are upserted and     *)
(* older runs pruned only after every farm chunk was fetched successfully; *)
(* if a chunk exhausts its attempts or fails with a non-retryable status,  *)
(* nothing is upserted or pruned; and the run record started by start_run  *)
(* is always closed by finish_run with status success or failed.           *)
(***************************************************************************)
JobOps == IF "ops" \in DOMAIN job THEN job.ops ELSE << >>

StoreWrites ==
    { i \in 1..Len(JobOps) : JobOps[i].op \in {"upsert_fields", "upsert_tasks",
                                               "prune_snapshot_date"} }

RunClosings == { i \in 1..Len(JobOps) : JobOps[i].op = "finish_run" }

RunStarted == \E i \in 1..Len(JobOps) : JobOps[i].op = "start_run"

PersistAfterAllChunks ==
    (job # EmptyDict /\ ~job.dryRun) =>
        /\ StoreWrites # {} => (job.chunks > 0 /\ job.fetched = 1..job.chunks)
        /\ job.failedAt = "fetch" => (StoreWrites = {} /\ job.fetched # 1..job.chunks)
        /\ \A i \in StoreWrites : \A j \in StoreWrites :
                (JobOps[i].op = "prune_snapshot_date" /\ i # j) => j < i
        /\ job.pc # "done" => RunClosings = {}
        /\ (job.pc = "done" /\ RunStarted) =>
                /\ RunClosings = {Len(JobOps)}
                /\ JobOps[Len(JobOps)].status \in {"success", "failed"}
                /\ JobOps[Len(JobOps)].status = "success" <=> job.result.kind = "return"
        /\ (job.pc = "done" /\ ~RunStarted) => (JobOps = << >> /\ job.failedAt = "schema")

\* the second of two chunks answered 503 on both attempts: no rows written,
\* the run record closed as failed
PersistAfterAllChunksWitness ==
    /\ job # EmptyDict /\ ~job.dryRun /\ job.pc = "done"
    /\ job.chunks = 2 /\ job.fetched = {1} /\ job.attempt = 2
    /\ job.failedAt = "fetch" /\ job.result.status = 503
    /\ JobOps = <<[op |-> "start_run", status |-> "running"],
                  [op |-> "finish_run", status |-> "failed"]>>

\* both chunks fetched, rows upserted, older runs pruned, the run closed as success
PersistedWitness ==
    /\ job # EmptyDict /\ ~job.dryRun /\ job.pc = "done"
    /\ job.fetched = {1, 2}
    /\ Len(JobOps) = 5 /\ JobOps[5] = [op |-> "finish_run", status |-> "success"]


(***************************************************************************)
(* C39: combined_fields rejects a request whose de-duplicated identifier   *)
(* count exceeds the hard maximum (the larger of the sync and hard limits) *)
(* with a 422 error before any upstream call or cache write; duplicates    *)
(* are collapsed, keeping first-occurrence order, before the count.        *)
(***************************************************************************)
Routed == rpc = "routed"

DistinctFarms == Cardinality(Range(routeIn.req.farm_uuids))

FirstIndex(items, x) == CHOOSE i \in 1..Len(items) : items[i] = x /\ \A j \in 1..(i - 1) : items[j] # x

\* d holds every element of items once, in the order of the first occurrences
FirstOccurrenceOrder(d, items) ==
    /\ Range(d) = Range(items)
    /\ \A i \in 1..Len(d) : \A j \in 1..Len(d) :
            i < j => FirstIndex(items, d[i]) < FirstIndex(items, d[j])

NothingStarted ==
    /\ spc = "idle" /\ cpc = "idle" /\ stpc = "idle"
    /\ by_operation = EmptyDict /\ issued = << >> /\ streamCalls = EmptyDict

RejectedAboveHardMax ==
    Routed =>
        /\ route.kind = "raise" <=>
                DistinctFarms > Max(routeIn.env.sync_max_farms, routeIn.env.hard_max_farms)
        /\ route.kind = "raise" =>
                (route.status = 422 /\ "req" \notin DOMAIN route /\ NothingStarted)
        /\ route.kind # "raise" =>
                FirstOccurrenceOrder(route.req.farm_uuids, routeIn.req.farm_uuids)

\* four entries, two distinct, both limits 1: rejected with 422
RejectedAboveHardMaxWitness ==
    /\ Routed
    /\ routeIn.req.farm_uuids = <<2, 1, 2, 1>>
    /\ routeIn.env.sync_max_farms = 1 /\ routeIn.env.hard_max_farms = 1
    /\ route.kind = "raise" /\ route.status = 422

\* four entries, two distinct, hard limit 2: accepted as <<2, 1>>
CollapsedBeforeCountWitness ==
    /\ Routed
    /\ routeIn.req.farm_uuids = <<2, 1, 2, 1>>
    /\ routeIn.env.sync_max_farms = 1 /\ routeIn.env.hard_max_farms = 2
    /\ route.kind = "chunked" /\ route.req.farm_uuids = <<2, 1>>

====
